---- MODULE Spec2Model ----
(***************************************************************************)
(* Storage-engine core of bustub: the LRU replacer and the buffer pool     *)
(* manager (src/src/buffer/lru_replacer.cpp, which also holds              *)
(* buffer_pool_manager.cpp), the B+ tree internal page and the B+ tree     *)
(* (src/src/storage/page/b_plus_tree_internal_page.cpp, which also holds   *)
(* b_plus_tree.cpp) and the index iterator.                                *)
(*                                                                         *)
(* The module holds several specifications over one set of variables:      *)
(*   SpecPool  the buffer pool manager with its replacer, driven by        *)
(*             arbitrary callers;                                          *)
(*   SpecTree  one thread running whole tree operations one after another; *)
(*   SpecConc  several threads running tree operations, interleaved at     *)
(*             the points where a thread can block.                        *)
(* A specification leaves the variables of the others unchanged.           *)
(***************************************************************************)
EXTENDS Integers, Sequences, FiniteSets, TLC

(***************************************************************************)
(* Program constants.                                                      *)
(***************************************************************************)
INVALID_PAGE_ID == -1
HEADER_PAGE_ID == 0

(***************************************************************************)
(* Bounds of the buffer pool specification.                                *)
(***************************************************************************)
PoolSize == 2        \* pool_size_: number of frames
MaxPoolPage == 2     \* page ids 0..MaxPoolPage are used by the callers
MaxPin == 2          \* callers hold at most MaxPin pins on one page
MaxData == 1         \* page contents written by callers are 1..MaxData
MaxCalls == 9        \* pool calls in one behaviour of the pool specification

Frames == 0 .. (PoolSize - 1)
PoolPages == 0 .. MaxPoolPage
NoFrame == -1        \* "page_table_.find(p) == page_table_.end()"

VARIABLES
  pages_,            \* frame -> [page_id_, pin_count_, is_dirty_, data]
  page_table_,       \* page id -> frame, NoFrame when the key is absent
  free_list_,        \* sequence of frames, front first
  lru_list_,         \* replacer: sequence of frames, front = most recent
  lru_map_,          \* replacer: the frames that have an entry in the map
  disk_,             \* disk manager: page id -> contents
  cur_max_page_id_,  \* next page id NewPageImpl hands out
  bpm_ret,           \* the last pool call and what it returned
  host_pin,          \* pin_count_ of the frame the last fetch/new took as host
  held,              \* callers' handles: page id -> [n: pins held, f: frame given]
  content,           \* page id -> the contents callers last wrote to it
  calls,             \* number of pool calls made
  lru_ret,           \* the last direct replacer call and what it returned
  lru_want,          \* what that call had to return by the reference order
  unpin_order,       \* reference: tracked frames, oldest effective unpin first
  tables_,           \* catalog: table oid -> TableMetadata, NoTable when absent
  names_,            \* catalog: table name -> table oid, NoOid when absent
  next_table_oid_,   \* catalog: the next table oid
  indexes_,          \* catalog: index oid -> IndexInfo, NoIndex when absent
  index_names_,      \* catalog: table name -> [has, idx: index name -> index oid]
  next_index_oid_,   \* catalog: the next index oid
  cat_ret,           \* the last CreateTable/CreateIndex call and what it returned
  created,           \* table name -> the metadata CreateTable returned for it
  page_arg,          \* the tree page a page function is called on
  fn_ret             \* the last call of a page function and what it returned

catvars == <<tables_, names_, next_table_oid_, indexes_, index_names_,
             next_index_oid_, cat_ret, created>>

fnvars == <<page_arg, fn_ret>>

poolvars == <<pages_, page_table_, free_list_, lru_list_, lru_map_, disk_,
              cur_max_page_id_, bpm_ret, host_pin, held, content, calls,
              lru_ret, lru_want, unpin_order, catvars, fnvars>>

----------------------------------------------------------------------------
(***************************************************************************)
(* Sequence helpers.                                                       *)
(***************************************************************************)
SeqSet(s) == {s[i] : i \in 1 .. Len(s)}

RemoveFromSeq(s, x) == SelectSeq(s, LAMBDA y : y # x)

\* "auto x = v; F(x)": a value computed once and then used
Bind(v, F(_)) == F(v)

----------------------------------------------------------------------------
(***************************************************************************)
(* LRUReplacer.  A replacer value is [list, map]: lru_list_ and the key    *)
(* set of lru_map_.  max_size_ is the pool size (constructor call in       *)
(* BufferPoolManager).                                                     *)
(***************************************************************************)
Replacer == [list |-> lru_list_, map |-> lru_map_]

\* Victim taking the front of the list, the most recently unpinned frame
LRUVictimFront(r) ==
  IF r.list = <<>>
    THEN [ok |-> FALSE, frame |-> NoFrame, r |-> r]
    ELSE LET f == r.list[1]
         IN [ok |-> TRUE, frame |-> f,
             r |-> [list |-> SubSeq(r.list, 2, Len(r.list)),
                    map |-> r.map \ {f}]]

\* Victim: [ok, frame, r]
LRUVictim(r) ==
  IF r.list = <<>>
    THEN [ok |-> FALSE, frame |-> NoFrame, r |-> r]
    ELSE LET f == r.list[Len(r.list)]
         IN [ok |-> TRUE, frame |-> f,
             r |-> [list |-> SubSeq(r.list, 1, Len(r.list) - 1),
                    map |-> r.map \ {f}]]

LRUPin(r, f) ==
  IF f \notin r.map
    THEN r
    ELSE [list |-> RemoveFromSeq(r.list, f), map |-> r.map \ {f}]

\* Unpin that moves a frame it already tracks to the front of the list
LRUUnpinRefresh(r, f, max_size) ==
  IF f \in r.map THEN [list |-> <<f>> \o RemoveFromSeq(r.list, f), map |-> r.map]
  ELSE IF Len(r.list) >= max_size THEN r
  ELSE [list |-> <<f>> \o r.list, map |-> r.map \cup {f}]

LRUUnpin(r, f, max_size) ==
  IF f \in r.map THEN r
  ELSE IF Len(r.list) >= max_size THEN r
  ELSE [list |-> <<f>> \o r.list, map |-> r.map \cup {f}]

LRUSize(r) == Len(r.list)

----------------------------------------------------------------------------
(***************************************************************************)
(* DiskManager (not in src/): pages are read and written by id; a write    *)
(* to a negative page id seeks before the start of the file and fails      *)
(* without changing the file.                                              *)
(***************************************************************************)
DiskWrite(d, p, data) == IF p \in DOMAIN d THEN [d EXCEPT ![p] = data] ELSE d

DiskRead(d, p) == IF p \in DOMAIN d THEN d[p] ELSE 0

----------------------------------------------------------------------------
(***************************************************************************)
(* BufferPoolManager.  A pool value B holds the fields of the object.      *)
(***************************************************************************)
Pool == [pages |-> pages_, pt |-> page_table_, free |-> free_list_,
         rep |-> Replacer, disk |-> disk_, next |-> cur_max_page_id_]

\* Host frame selection shared by FetchPageImpl and NewPageImpl:
\* free list first, then the replacer; a victim is written out when dirty
\* and leaves the page table.  [ok, frame, B]
FindHost(B) ==
  IF B.free # <<>>
    THEN [ok |-> TRUE, frame |-> Head(B.free),
          B |-> [B EXCEPT !.free = Tail(B.free)]]
    ELSE LET v == LRUVictim(B.rep)
         IN IF v.ok
              THEN LET pg == B.pages[v.frame]
                       d1 == IF pg.is_dirty_
                               THEN DiskWrite(B.disk, pg.page_id_, pg.data)
                               ELSE B.disk
                       pt1 == [q \in DOMAIN B.pt |->
                                 IF q = pg.page_id_ THEN NoFrame ELSE B.pt[q]]
                   IN [ok |-> TRUE, frame |-> v.frame,
                       B |-> [B EXCEPT !.rep = v.r, !.disk = d1, !.pt = pt1]]
              ELSE [ok |-> FALSE, frame |-> NoFrame, B |-> B]

\* [frame, hostpin, B]; frame = NoFrame is the nullptr result
FetchPageImpl(B, p) ==
  IF B.pt[p] # NoFrame
    THEN LET f == B.pt[p]
         IN [frame |-> f, hostpin |-> 0,
             B |-> [B EXCEPT !.pages[f].pin_count_ = @ + 1,
                             !.rep = LRUPin(B.rep, f)]]
    ELSE LET h == FindHost(B)
         IN IF ~h.ok
              THEN [frame |-> NoFrame, hostpin |-> 0, B |-> B]
              ELSE LET f == h.frame
                       B1 == h.B
                   IN [frame |-> f, hostpin |-> B.pages[f].pin_count_,
                       B |-> [B1 EXCEPT
                                !.pages[f] = [page_id_ |-> p, pin_count_ |-> 1,
                                              is_dirty_ |-> FALSE,
                                              data |-> DiskRead(B1.disk, p)],
                                !.pt[p] = f,
                                !.rep = LRUPin(B1.rep, f)]]

\* [ok, B]
UnpinPageImpl(B, p, is_dirty) ==
  IF B.pt[p] = NoFrame THEN [ok |-> FALSE, B |-> B]
  ELSE LET f == B.pt[p]
       IN IF B.pages[f].pin_count_ <= 0 THEN [ok |-> FALSE, B |-> B]
          ELSE LET B1 == [B EXCEPT !.pages[f].pin_count_ = @ - 1,
                                   !.pages[f].is_dirty_ = (@ \/ is_dirty)]
               IN [ok |-> TRUE,
                   B |-> IF B1.pages[f].pin_count_ <= 0
                           THEN [B1 EXCEPT !.rep = LRUUnpin(B1.rep, f, PoolSize)]
                           ELSE B1]

\* "Page *page = &pages_[page_table_[page_id]]" uses operator[] of the map,
\* which inserts page_id -> 0 when the key is absent, before the find.
FlushPageImpl(B, p) ==
  IF p = INVALID_PAGE_ID THEN [ok |-> FALSE, B |-> B]
  ELSE LET pt1 == IF B.pt[p] = NoFrame THEN [B.pt EXCEPT ![p] = 0] ELSE B.pt
           f == pt1[p]
           pg == B.pages[f]
       IN IF pt1[p] = NoFrame THEN [ok |-> FALSE, B |-> [B EXCEPT !.pt = pt1]]
          ELSE [ok |-> TRUE,
                B |-> [B EXCEPT !.pt = pt1,
                                !.disk = DiskWrite(B.disk, pg.page_id_, pg.data),
                                !.pages[f].is_dirty_ = FALSE]]

\* [frame, page_id, hostpin, B]
NewPageImpl(B) ==
  LET h == FindHost(B)
  IN IF ~h.ok
       THEN [frame |-> NoFrame, page_id |-> INVALID_PAGE_ID, hostpin |-> 0, B |-> B]
       ELSE LET f == h.frame
                B1 == h.B
                p == B1.next
            IN [frame |-> f, page_id |-> p, hostpin |-> B.pages[f].pin_count_,
                B |-> [B1 EXCEPT
                         !.pages[f] = [page_id_ |-> p, pin_count_ |-> 1,
                                       is_dirty_ |-> FALSE, data |-> 0],
                         !.next = p + 1,
                         !.pt[p] = f,
                         !.rep = LRUPin(B1.rep, f)]]

\* DeletePageImpl as it would be without replacer_->Pin(frame_id) (line 281):
\* the frame of the deleted page stays in the replacer
DeletePageKeepsVictim(B, p) ==
  IF B.pt[p] = NoFrame THEN [ok |-> TRUE, B |-> B]
  ELSE LET f == B.pt[p]
           pg == B.pages[f]
       IN IF pg.pin_count_ # 0 THEN [ok |-> FALSE, B |-> B]
          ELSE [ok |-> TRUE,
                B |-> [B EXCEPT
                         !.disk = IF pg.is_dirty_
                                    THEN DiskWrite(B.disk, pg.page_id_, pg.data)
                                    ELSE B.disk,
                         !.pt[p] = NoFrame,
                         !.pages[f] = [page_id_ |-> INVALID_PAGE_ID,
                                       pin_count_ |-> 0, is_dirty_ |-> FALSE,
                                       data |-> 0],
                         !.free = Append(B.free, f)]]

\* [ok, B]
DeletePageImpl(B, p) ==
  IF B.pt[p] = NoFrame THEN [ok |-> TRUE, B |-> B]
  ELSE LET f == B.pt[p]
           pg == B.pages[f]
       IN IF pg.pin_count_ # 0 THEN [ok |-> FALSE, B |-> B]
          ELSE [ok |-> TRUE,
                B |-> [B EXCEPT
                         !.disk = IF pg.is_dirty_
                                    THEN DiskWrite(B.disk, pg.page_id_, pg.data)
                                    ELSE B.disk,
                         !.pt[p] = NoFrame,
                         !.pages[f] = [page_id_ |-> INVALID_PAGE_ID,
                                       pin_count_ |-> 0, is_dirty_ |-> FALSE,
                                       data |-> 0],
                         !.free = Append(B.free, f),
                         !.rep = LRUPin(B.rep, f)]]

\* the loop over page_table_: every mapped frame is written and cleaned
FlushAllPagesImpl(B) ==
  LET mapped == {B.pt[q] : q \in {x \in DOMAIN B.pt : B.pt[x] # NoFrame}}
      written == {f \in mapped : B.pages[f].page_id_ \in DOMAIN B.disk}
  IN [B EXCEPT
        !.disk = [q \in DOMAIN B.disk |->
                    IF \E f \in written : B.pages[f].page_id_ = q
                      THEN B.pages[CHOOSE f \in written :
                                     B.pages[f].page_id_ = q
                                     /\ \A g \in written :
                                          B.pages[g].page_id_ = q => f <= g].data
                      ELSE B.disk[q]],
        !.pages = [f \in DOMAIN B.pages |->
                     IF f \in mapped
                       THEN [B.pages[f] EXCEPT !.is_dirty_ = FALSE]
                       ELSE B.pages[f]]]

----------------------------------------------------------------------------
(***************************************************************************)
(* B+ tree.  Bounds and configuration of the tree specifications.          *)
(***************************************************************************)
MinLeafMaxSize == 2        \* leaf_max_size, the constructor argument of BPlusTree,
MaxLeafMaxSize == 3        \*   is MinLeafMaxSize..MaxLeafMaxSize
MinInternalMaxSize == 3    \* internal_max_size, the constructor argument, is
MaxInternalMaxSize == 4    \*   MinInternalMaxSize..MaxInternalMaxSize
MaxKey == 8               \* keys are 1..MaxKey
MaxVal == 2               \* values (record ids) are 1..MaxVal
MaxPageId == 15           \* page ids 0..MaxPageId; at most MaxPageId pages are allocated
NThreads == 2             \* threads (each with its own transaction) of SpecConc

Keys == 1 .. MaxKey
Vals == 1 .. MaxVal
Pids == 0 .. MaxPageId
Threads == 1 .. NThreads
LeafMaxSizes == MinLeafMaxSize .. MaxLeafMaxSize
InternalMaxSizes == MinInternalMaxSize .. MaxInternalMaxSize

\* slots of the array_ of a node page that the model keeps (a page has room
\* for more; no operation of the model reaches beyond max_size + 1)
ArrCap == (IF MaxLeafMaxSize > MaxInternalMaxSize
             THEN MaxLeafMaxSize ELSE MaxInternalMaxSize) + 2

\* IndexPageType
INVALID_INDEX_PAGE == 0
LEAF_PAGE == 1
INTERNAL_PAGE == 2

\* a page is [typ, size, maxs, par, next, arr]; arr[i + 1] is array_[i],
\* a pair <<key, value>>; slots at and beyond size keep what was left there.
NoPair == <<0, 0>>
ZeroArr == [i \in 1 .. ArrCap |-> NoPair]
\* a frame after ResetMemory(): all bytes zero
ZeroNode == [typ |-> INVALID_INDEX_PAGE, size |-> 0, maxs |-> 0, par |-> 0,
             next |-> 0, arr |-> ZeroArr]

\* array_[i]; a read outside the slots the model keeps yields a pair whose
\* value is no page id
Slot(n, i) == IF i + 1 \in 1 .. ArrCap THEN n.arr[i + 1] ELSE <<0, INVALID_PAGE_ID>>

SetSlot(n, i, pr) == IF i + 1 \in 1 .. ArrCap THEN [n EXCEPT !.arr[i + 1] = pr] ELSE n

IsLeafPage(n) == n.typ = LEAF_PAGE

IsRootPage(n) == n.par = INVALID_PAGE_ID

\* BPlusTreePage::GetMinSize (b_plus_tree_page.cpp is not in src/):
\* ceil(L/2) for a leaf, ceil((I+1)/2) for an internal page
GetMinSize(n) == IF IsLeafPage(n) THEN (n.maxs + 1) \div 2 ELSE (n.maxs + 2) \div 2

\* KeyComparator on integer keys
comparator(a, b) == IF a < b THEN -1 ELSE IF a > b THEN 1 ELSE 0

----------------------------------------------------------------------------
(***************************************************************************)
(* BPlusTreeInternalPage: the operations that touch only the page.         *)
(***************************************************************************)
InternalInit(parent_id, max_size) ==
  [ZeroNode EXCEPT !.typ = INTERNAL_PAGE, !.size = 0, !.par = parent_id,
                   !.maxs = max_size]

\* the test that guards the throw of OUT_OF_RANGE in KeyAt, SetKeyAt,
\* ValueAt and Remove: "index < 0 && index >= GetSize()"
OutOfRange(n, index) == index < 0 /\ index >= n.size

KeyAt(n, index) == Slot(n, index)[1]

SetKeyAt(n, index, key) == SetSlot(n, index, <<key, Slot(n, index)[2]>>)

ValueAt(n, index) == Slot(n, index)[2]

ValueIndex(n, value) ==
  IF \E i \in 0 .. (n.size - 1) : ValueAt(n, i) = value
    THEN CHOOSE i \in 0 .. (n.size - 1) :
           /\ ValueAt(n, i) = value
           /\ \A j \in 0 .. (i - 1) : ValueAt(n, j) # value
    ELSE n.size

\* a binary search that answers the child after the boundary it ends on
RECURSIVE LookupLoopLow(_, _, _, _)
LookupLoopLow(n, key, low, high) ==
  IF low <= high
    THEN LET mid == (low + high) \div 2
         IN IF comparator(key, KeyAt(n, mid)) = 0 THEN ValueAt(n, mid)
            ELSE IF comparator(key, KeyAt(n, mid)) > 0
                   THEN LookupLoopLow(n, key, mid + 1, high)
                   ELSE LookupLoopLow(n, key, low, mid - 1)
    ELSE ValueAt(n, low)

\* the while loop of Lookup
RECURSIVE LookupLoop(_, _, _, _)
LookupLoop(n, key, low, high) ==
  IF low <= high
    THEN LET mid == (low + high) \div 2
         IN IF comparator(key, KeyAt(n, mid)) = 0 THEN ValueAt(n, mid)
            ELSE IF comparator(key, KeyAt(n, mid)) > 0
                   THEN LookupLoop(n, key, mid + 1, high)
                   ELSE LookupLoop(n, key, low, mid - 1)
    ELSE ValueAt(n, high)

Lookup(n, key) ==
  LET high == n.size - 1
  IN IF comparator(key, KeyAt(n, 1)) < 0 THEN ValueAt(n, 0)
     ELSE IF comparator(key, KeyAt(n, high)) >= 0 THEN ValueAt(n, high)
     ELSE LookupLoop(n, key, 1, high)

PopulateNewRoot(n, old_value, new_key, new_value) ==
  IF n.size = 0
    THEN [SetSlot(SetSlot(n, 0, <<KeyAt(n, 0), old_value>>), 1,
                  <<new_key, new_value>>) EXCEPT !.size = 2]
    ELSE n

\* the loop of InsertNodeAfter, from i = size - 1 down to 0
RECURSIVE InsertNodeAfterLoop(_, _, _, _, _)
InsertNodeAfterLoop(n, i, old_value, new_key, new_value) ==
  IF i < 0 THEN n
  ELSE IF ValueAt(n, i) = old_value
         THEN [SetSlot(n, i + 1, <<new_key, new_value>>) EXCEPT !.size = @ + 1]
         ELSE InsertNodeAfterLoop(SetSlot(n, i + 1, Slot(n, i)), i - 1,
                                  old_value, new_key, new_value)

InsertNodeAfter(n, old_value, new_key, new_value) ==
  InsertNodeAfterLoop(n, n.size - 1, old_value, new_key, new_value)

\* Remove(index): the slots above index move down by one; the old last slot
\* keeps its bytes
InternalRemove(n, index) ==
  [n EXCEPT !.arr = [j \in 1 .. ArrCap |->
                       IF j - 1 >= index /\ j - 1 < n.size - 1 /\ j + 1 <= ArrCap
                         THEN n.arr[j + 1] ELSE n.arr[j]],
            !.size = @ - 1]

\* how many pairs MoveHalfTo leaves behind
InternalKeep(n) == IF GetMinSize(n) < 2 THEN 2 ELSE GetMinSize(n)

----------------------------------------------------------------------------
(***************************************************************************)
(* BPlusTreeLeafPage (b_plus_tree_leaf_page.cpp is not in src/; modelled   *)
(* from section 4.3 of the specification).  A leaf keeps its pairs sorted  *)
(* by key in slots 0..size-1; vacated slots are zeroed.                    *)
(***************************************************************************)
LeafInit(parent_id, max_size) ==
  [ZeroNode EXCEPT !.typ = LEAF_PAGE, !.size = 0, !.par = parent_id,
                   !.maxs = max_size, !.next = INVALID_PAGE_ID]

LeafPairs(n) == [i \in 1 .. n.size |-> n.arr[i]]

LeafWith(n, pairs) ==
  [n EXCEPT !.arr = [i \in 1 .. ArrCap |->
                       IF i <= Len(pairs) THEN pairs[i] ELSE NoPair],
            !.size = Len(pairs)]

\* first slot whose key is >= key
LeafKeyIndex(n, key) == Cardinality({i \in 1 .. n.size : n.arr[i][1] < key})

LeafHas(n, key) == \E i \in 1 .. n.size : n.arr[i][1] = key

LeafValue(n, key) == n.arr[CHOOSE i \in 1 .. n.size : n.arr[i][1] = key][2]

LeafInsert(n, key, value) ==
  IF LeafHas(n, key) THEN n
  ELSE LET k == LeafKeyIndex(n, key)
           ps == LeafPairs(n)
       IN LeafWith(n, SubSeq(ps, 1, k) \o <<<<key, value>>>>
                      \o SubSeq(ps, k + 1, Len(ps)))

LeafRemoveAndDeleteRecord(n, key) ==
  LeafWith(n, SelectSeq(LeafPairs(n), LAMBDA pr : pr[1] # key))

\* MoveHalfTo: the pair <<this page, recipient>> after the move
LeafMoveHalfTo(n, r) ==
  LET keep == GetMinSize(n)
      ps == LeafPairs(n)
  IN <<LeafWith(n, SubSeq(ps, 1, keep)),
       LeafWith(r, LeafPairs(r) \o SubSeq(ps, keep + 1, Len(ps)))>>

LeafMoveAllTo(n, r) ==
  <<LeafWith(n, <<>>),
    [LeafWith(r, LeafPairs(r) \o LeafPairs(n)) EXCEPT !.next = n.next]>>

LeafMoveFirstToEndOf(n, r) ==
  LET ps == LeafPairs(n)
  IN <<LeafWith(n, Tail(ps)), LeafWith(r, Append(LeafPairs(r), Head(ps)))>>

LeafMoveLastToFrontOf(n, r) ==
  LET ps == LeafPairs(n)
  IN <<LeafWith(n, SubSeq(ps, 1, Len(ps) - 1)),
       LeafWith(r, <<ps[Len(ps)]>> \o LeafPairs(r))>>

----------------------------------------------------------------------------
(***************************************************************************)
(* State of the tree specifications.  The tree runs on a buffer pool that  *)
(* is large enough that no fetch fails: the free list never runs empty,    *)
(* so no page is evicted, and (frames being taken from the front of the    *)
(* free list and returned to its back) a frame hosts one page during its   *)
(* whole life.  The pool is therefore kept per page id: whether the page   *)
(* is in the page table, its frame's contents, pin count, dirty bit and    *)
(* latch, and its contents on disk.                                        *)
(***************************************************************************)
VARIABLES
  leaf_max_size_,      \* BPlusTree::leaf_max_size_
  internal_max_size_,  \* BPlusTree::internal_max_size_
  mem,            \* page id -> contents of the frame that holds the page
  dsk,            \* page id -> contents on disk
  res,            \* page id -> the page is in page_table_
  pin,            \* page id -> pin_count_ of its frame
  dty,            \* page id -> is_dirty_ of its frame
  lat,            \* page id -> latch of its frame: [w: writer thread or 0, r: readers]
  root_page_id_,  \* BPlusTree::root_page_id_
  root_latch_,    \* BPlusTree::root_latch_: the thread that holds the mutex, or 0
  next_page_id,   \* cur_max_page_id_ of the tree's pool
  tree_pool_size, \* pool_size_ of the tree's pool
  hdr,            \* header page record of this index: [has, root]
  th,             \* thread -> its position, locals and transaction
  ub,             \* an operation has used a page that is no tree page
  ref,            \* reference map: key -> value, 0 when the key is absent
  want,           \* what the reference map says the last operation returns
  used,           \* keys the concurrent threads have operated on
  nops            \* operations started so far

treevars == <<leaf_max_size_, internal_max_size_, mem, dsk, res, pin, dty, lat,
              root_page_id_, root_latch_,
              next_page_id, tree_pool_size, hdr, th, ub, ref, want, used, nops>>

vars == <<poolvars, treevars>>

FreeLatch == [w |-> 0, r |-> 0]

\* a pool with a frame for every page id
AmplePool == MaxPageId + 1

IdleThread ==
  [pc |-> "idle", op |-> "none", key |-> 0, val |-> 0, ret |-> 0,
   page |-> INVALID_PAGE_ID,     \* Page *page of the descent
   child |-> INVALID_PAGE_ID,    \* the child page being latched
   rl |-> FALSE,                 \* is_root_latched
   node |-> INVALID_PAGE_ID,     \* node of CoalesceOrRedistribute
   parent |-> INVALID_PAGE_ID, sibling |-> INVALID_PAGE_ID, index |-> 0,
   stack |-> <<>>,               \* callers of CoalesceOrRedistribute: <<parent, sibling>>
   leaf |-> INVALID_PAGE_ID,     \* leaf_page of Remove
   pageset |-> <<>>,             \* transaction->GetPageSet()
   delset |-> {}]                \* transaction->GetDeletedPageSet()

\* the machine state as one value, so that operations compose
TS == [lmax |-> leaf_max_size_, imax |-> internal_max_size_,
       mem |-> mem, dsk |-> dsk, res |-> res, pin |-> pin, dty |-> dty,
       lat |-> lat, root |-> root_page_id_, rlatch |-> root_latch_,
       next |-> next_page_id, hdr |-> hdr, th |-> th, ub |-> ub,
       cap |-> tree_pool_size, oom |-> FALSE, thrown |-> <<>>]

Mem(s, p) == IF p \in Pids THEN s.mem[p] ELSE ZeroNode

PutMem(s, p, n) == IF p \in Pids THEN [s EXCEPT !.mem[p] = n] ELSE s

----------------------------------------------------------------------------
(***************************************************************************)
(* The buffer pool as the tree uses it.                                    *)
(***************************************************************************)
\* every frame of the pool holds a pinned page: neither the free list nor
\* the replacer has a frame to give
AllFramesPinned(s) == Cardinality({q \in Pids : s.res[q] /\ s.pin[q] > 0}) >= s.cap

\* "throw Exception(ExceptionType::OUT_OF_MEMORY, ...)": the operation
\* ends here, and its caller gets the tree as it is at this point
ThrowOutOfMemory(s) == IF s.oom THEN s ELSE [s EXCEPT !.oom = TRUE, !.thrown = s]

\* FetchPageImpl: a hit pins the page; a miss takes a free frame or a
\* victim and reads the page from disk, and returns nullptr when there is
\* neither.  An unpinned page is kept in its frame until it is deleted, as
\* its contents do not depend on where they are kept; with every frame
\* pinned it is in no frame.  A page id outside the file is no page.
BpmFetchPage(s, p) ==
  IF p \notin Pids THEN [s EXCEPT !.ub = TRUE]
  ELSE IF s.pin[p] <= 0 /\ AllFramesPinned(s) THEN ThrowOutOfMemory(s)
  ELSE IF s.res[p] THEN [s EXCEPT !.pin[p] = @ + 1]
  ELSE [s EXCEPT !.res[p] = TRUE, !.pin[p] = 1, !.dty[p] = FALSE,
                 !.mem[p] = s.dsk[p], !.lat[p] = FreeLatch]

\* a fetch whose result is reinterpret_cast to a tree page
FetchNode(s, p) ==
  Bind(BpmFetchPage(s, p), LAMBDA s1 :
    IF s1.ub THEN s1
    ELSE IF s1.mem[p].typ = INVALID_INDEX_PAGE THEN [s1 EXCEPT !.ub = TRUE]
    ELSE s1)

BpmUnpinPage(s, p, is_dirty) ==
  IF p \notin Pids THEN s
  ELSE IF ~s.res[p] THEN s
  ELSE IF s.pin[p] <= 0 THEN s
  ELSE [s EXCEPT !.pin[p] = @ - 1, !.dty[p] = (@ \/ is_dirty)]

\* NewPageImpl; the new page id is s.next of the state before
BpmNewPage(s) ==
  LET p == s.next
  IN IF AllFramesPinned(s) THEN ThrowOutOfMemory(s)
     ELSE IF p \notin Pids THEN [s EXCEPT !.next = p + 1]
     ELSE
     [s EXCEPT !.res[p] = TRUE, !.pin[p] = 1, !.dty[p] = FALSE,
               !.mem[p] = ZeroNode, !.lat[p] = FreeLatch, !.next = p + 1]

\* DeletePageImpl.  The frame goes to the back of the free list and hosts
\* no page again: Page pointers to it that transactions still keep are dead
\* (its latch is nobody's, its page id is INVALID_PAGE_ID) and are dropped.
BpmDeletePage(s, p) ==
  IF p \notin Pids THEN s
  ELSE IF ~s.res[p] THEN s
  ELSE IF s.pin[p] # 0 THEN s
  ELSE [s EXCEPT !.dsk[p] = IF s.dty[p] THEN s.mem[p] ELSE @,
                 !.res[p] = FALSE, !.mem[p] = ZeroNode, !.dty[p] = FALSE,
                 !.pin[p] = 0, !.lat[p] = FreeLatch,
                 !.th = [t \in DOMAIN s.th |->
                           [s.th[t] EXCEPT !.pageset = RemoveFromSeq(@, p)]]]

----------------------------------------------------------------------------
(***************************************************************************)
(* Page latches (rwlatch.h is not in src/): many readers or one writer;    *)
(* WUnlatch clears the writer whoever holds it.                            *)
(***************************************************************************)
CanRLatch(s, p) == s.lat[p].w = 0

CanWLatch(s, p) == s.lat[p].w = 0 /\ s.lat[p].r = 0

RLatch(s, p) == [s EXCEPT !.lat[p].r = @ + 1]

WLatch(s, t, p) == [s EXCEPT !.lat[p].w = t]

RUnlatch(s, p) == [s EXCEPT !.lat[p].r = IF @ > 0 THEN @ - 1 ELSE 0]

WUnlatch(s, p) == [s EXCEPT !.lat[p].w = 0]

----------------------------------------------------------------------------
(***************************************************************************)
(* BPlusTree helpers.                                                      *)
(***************************************************************************)
\* HeaderPage::InsertRecord / UpdateRecord (header_page.cpp is not in
\* src/): insert fails when the name has a record, update when it has none
UpdateRootPageId(s, insert_record) ==
  Bind(BpmFetchPage(s, HEADER_PAGE_ID), LAMBDA s1 :
    BpmUnpinPage(
      [s1 EXCEPT !.hdr =
         IF insert_record # 0
           THEN IF s1.hdr.has THEN s1.hdr ELSE [has |-> TRUE, root |-> s1.root]
           ELSE IF s1.hdr.has THEN [has |-> TRUE, root |-> s1.root] ELSE s1.hdr],
      HEADER_PAGE_ID, TRUE))

\* the loop of UnlockUnpinPages over the page set, front first
RECURSIVE UnlockUnpinLoop(_, _)
UnlockUnpinLoop(s, ps) ==
  IF ps = <<>> THEN s
  ELSE UnlockUnpinLoop(BpmUnpinPage(WUnlatch(s, Head(ps)), Head(ps), TRUE), Tail(ps))

UnlockUnpinPages(s, t) ==
  [UnlockUnpinLoop(s, s.th[t].pageset) EXCEPT !.th[t].pageset = <<>>]

\* "if (root_is_latched) { root_latch_.unlock(); root_is_latched = false; }"
UnlockRoot(s, t) ==
  IF s.th[t].rl THEN [s EXCEPT !.rlatch = 0, !.th[t].rl = FALSE] ELSE s

IsSafe(n, op) ==
  IF IsRootPage(n)
    THEN (op = "insert" /\ n.size < n.maxs) \/ (op = "remove" /\ n.size > 0)
  ELSE IF op = "insert" THEN n.size < n.maxs
  ELSE IF op = "remove" THEN n.size > GetMinSize(n)
  ELSE TRUE

\* BPlusTreeInternalPage::CopyNFrom on page rp: the loop adopts each moved
\* child through the pool, then the size grows
RECURSIVE CopyNLoop(_, _, _, _, _)
CopyNLoop(s, rp, items, k, base) ==
  IF k > Len(items) THEN s
  ELSE Bind(FetchNode(s, items[k][2]), LAMBDA s1 :
       Bind(PutMem(s1, rp, SetSlot(Mem(s1, rp), base + k - 1, items[k])), LAMBDA s2 :
       Bind(PutMem(s2, items[k][2], [Mem(s2, items[k][2]) EXCEPT !.par = rp]), LAMBDA s3 :
         CopyNLoop(BpmUnpinPage(s3, items[k][2], TRUE), rp, items, k + 1, base))))

CopyNFrom(s, rp, items) ==
  Bind(CopyNLoop(s, rp, items, 1, Mem(s, rp).size), LAMBDA s1 :
    PutMem(s1, rp, [Mem(s1, rp) EXCEPT !.size = @ + Len(items)]))

\* BPlusTreeInternalPage::MoveHalfTo from page p to page rp
InternalMoveHalfTo(s, p, rp) ==
  LET n == Mem(s, p)
      minsize == InternalKeep(n)
      half == n.size - minsize
  IN Bind(CopyNFrom(s, rp, [i \in 1 .. half |-> Slot(n, minsize + i - 1)]), LAMBDA s1 :
       PutMem(s1, p, [Mem(s1, p) EXCEPT !.size = @ - half]))

\* BPlusTreeInternalPage::MoveAllTo
InternalMoveAllTo(s, p, rp, middle_key) ==
  Bind(PutMem(s, p, SetKeyAt(Mem(s, p), 0, middle_key)), LAMBDA s1 :
  Bind(CopyNFrom(s1, rp, [i \in 1 .. Mem(s1, p).size |-> Slot(Mem(s1, p), i - 1)]), LAMBDA s2 :
    PutMem(s2, p, [Mem(s2, p) EXCEPT !.size = 0])))

\* BPlusTreeInternalPage::CopyLastFrom
CopyLastFrom(s, rp, pair) ==
  Bind(PutMem(s, rp, SetSlot(Mem(s, rp), Mem(s, rp).size, pair)), LAMBDA s1 :
  Bind(FetchNode(s1, pair[2]), LAMBDA s2 :
  Bind(BpmUnpinPage(PutMem(s2, pair[2], [Mem(s2, pair[2]) EXCEPT !.par = rp]),
                    pair[2], TRUE), LAMBDA s3 :
    PutMem(s3, rp, [Mem(s3, rp) EXCEPT !.size = @ + 1]))))

\* BPlusTreeInternalPage::MoveFirstToEndOf
InternalMoveFirstToEndOf(s, p, rp, middle_key) ==
  Bind(CopyLastFrom(s, rp, <<middle_key, ValueAt(Mem(s, p), 0)>>), LAMBDA s1 :
    PutMem(s1, p, InternalRemove(Mem(s1, p), 0)))

\* BPlusTreeInternalPage::CopyFirstFrom
CopyFirstFrom(s, rp, pair) ==
  LET r == Mem(s, rp)
      shifted == [r EXCEPT !.arr = [j \in 1 .. ArrCap |->
                                      IF j = 1 THEN pair
                                      ELSE IF j - 1 <= r.size THEN r.arr[j - 1]
                                      ELSE r.arr[j]]]
  IN Bind(FetchNode(PutMem(s, rp, shifted), pair[2]), LAMBDA s2 :
     Bind(BpmUnpinPage(PutMem(s2, pair[2], [Mem(s2, pair[2]) EXCEPT !.par = rp]),
                       pair[2], TRUE), LAMBDA s3 :
       PutMem(s3, rp, [Mem(s3, rp) EXCEPT !.size = @ + 1])))

\* the slot MoveLastToFrontOf takes the moved child from: ValueAt(GetSize())
MovedLastSlot(n) == n.size

\* BPlusTreeInternalPage::MoveLastToFrontOf
InternalMoveLastToFrontOf(s, p, rp, middle_key) ==
  Bind(CopyFirstFrom(s, rp, <<middle_key, ValueAt(Mem(s, p), MovedLastSlot(Mem(s, p)))>>),
       LAMBDA s1 : PutMem(s1, p, [Mem(s1, p) EXCEPT !.size = @ - 1]))

----------------------------------------------------------------------------
(***************************************************************************)
(* BPlusTree: insertion.                                                   *)
(***************************************************************************)
\* an operation is over: back to idle, keeping what it was, what it
\* returned, and the transaction
Finish(s, t, ret) ==
  [s EXCEPT !.th[t] = [IdleThread EXCEPT !.op = s.th[t].op, !.key = s.th[t].key,
                                         !.val = s.th[t].val, !.ret = ret,
                                         !.pageset = s.th[t].pageset,
                                         !.delset = s.th[t].delset]]

StartNewTree(s, key, value) ==
  Bind(BpmNewPage(s), LAMBDA s1 :
  Bind(PutMem([s1 EXCEPT !.root = s.next], s.next,
              LeafInsert(LeafInit(INVALID_PAGE_ID, s.lmax), key, value)), LAMBDA s2 :
    UpdateRootPageId(BpmUnpinPage(s2, s.next, TRUE), 1)))

\* Split(node): [s, new] with new the id of the new page, which stays pinned
Split(s, p) ==
  Bind(BpmNewPage(s), LAMBDA s1 :
    IF IsLeafPage(Mem(s1, p))
      THEN LET old == Mem(s1, p)
               mv == LeafMoveHalfTo(old, LeafInit(old.par, s.lmax))
           IN [s |-> PutMem(PutMem(s1, s.next, [mv[2] EXCEPT !.next = old.next]),
                            p, [mv[1] EXCEPT !.next = s.next]),
               new |-> s.next]
      ELSE [s |-> InternalMoveHalfTo(
                    PutMem(s1, s.next, InternalInit(Mem(s1, p).par, s.imax)),
                    p, s.next),
            new |-> s.next])

RECURSIVE InsertIntoParent(_, _, _, _, _)
InsertIntoParent(s, t, oldp, key, newp) ==
  IF IsRootPage(Mem(s, oldp))
    THEN Bind(BpmNewPage(s), LAMBDA s1 :
         Bind(PutMem([s1 EXCEPT !.root = s.next], s.next,
                     PopulateNewRoot(InternalInit(INVALID_PAGE_ID, s.imax),
                                     oldp, key, newp)), LAMBDA s2 :
         Bind(UpdateRootPageId(BpmUnpinPage(s2, s.next, TRUE), 0), LAMBDA s3 :
         Bind(PutMem(s3, oldp, [Mem(s3, oldp) EXCEPT !.par = s.next]), LAMBDA s4 :
           UnlockUnpinPages(PutMem(s4, newp, [Mem(s4, newp) EXCEPT !.par = s.next]), t)))))
    ELSE Bind(FetchNode(s, Mem(s, oldp).par), LAMBDA s1 :
         Bind(PutMem(s1, Mem(s, oldp).par,
                     InsertNodeAfter(Mem(s1, Mem(s, oldp).par), oldp, key, newp)), LAMBDA s2 :
           IF Mem(s2, Mem(s, oldp).par).size <= Mem(s2, Mem(s, oldp).par).maxs
             THEN UnlockUnpinPages(BpmUnpinPage(s2, Mem(s, oldp).par, TRUE), t)
             ELSE Bind(Split(s2, Mem(s, oldp).par), LAMBDA sp :
                  Bind(InsertIntoParent(sp.s, t, Mem(s, oldp).par,
                                        KeyAt(Mem(sp.s, sp.new), 0), sp.new), LAMBDA s3 :
                    BpmUnpinPage(BpmUnpinPage(s3, Mem(s, oldp).par, TRUE), sp.new, TRUE)))))

\* what InsertIntoLeaf does releasing after an insertion that needs no split
ReleaseAfterInsert(s, t) ==
  LET p == s.th[t].page
  IN BpmUnpinPage(WUnlatch(UnlockRoot(s, t), p), p, TRUE)

\* InsertIntoLeaf once FindLeafPageByOperation has returned the leaf
InsertIntoLeaf(s, t) ==
  LET p == s.th[t].page
      key == s.th[t].key
  IN IF LeafHas(Mem(s, p), key)
       THEN Finish(UnlockRoot(UnlockUnpinPages(s, t), t), t, 0)
       ELSE Bind(PutMem(s, p, LeafInsert(Mem(s, p), key, s.th[t].val)), LAMBDA s1 :
              IF Mem(s1, p).size <= Mem(s1, p).maxs
                THEN Finish(ReleaseAfterInsert(s1, t), t, 1)
                ELSE Bind(Split(s1, p), LAMBDA sp :
                     Bind(InsertIntoParent(sp.s, t, p, KeyAt(Mem(sp.s, sp.new), 0), sp.new),
                          LAMBDA s2 :
                       Finish(BpmUnpinPage(UnlockUnpinPages(UnlockRoot(s2, t), t),
                                           sp.new, TRUE), t, 1))))

----------------------------------------------------------------------------
(***************************************************************************)
(* BPlusTree: removal.                                                     *)
(***************************************************************************)
\* AdjustRoot as it would be without the SetParentPageId of line 906: the
\* child that becomes the root keeps the id of the old root as its parent
AdjustRootKeepsParent(s, p) ==
  IF ~IsLeafPage(Mem(s, p)) /\ Mem(s, p).size = 1
    THEN LET child_id == ValueAt(Mem(s, p), 0)
         IN Bind(PutMem(s, p, [Mem(s, p) EXCEPT !.size = 0]), LAMBDA s1 :
            Bind(FetchNode(UpdateRootPageId([s1 EXCEPT !.root = child_id], 0), child_id),
                 LAMBDA s3 : [s |-> BpmUnpinPage(s3, child_id, TRUE), del |-> TRUE]))
  ELSE IF IsLeafPage(Mem(s, p)) /\ Mem(s, p).size = 0
    THEN [s |-> UpdateRootPageId([s EXCEPT !.root = INVALID_PAGE_ID], 0), del |-> TRUE]
  ELSE [s |-> s, del |-> FALSE]

\* AdjustRoot: [s, del]
AdjustRoot(s, p) ==
  IF ~IsLeafPage(Mem(s, p)) /\ Mem(s, p).size = 1
    THEN LET child_id == ValueAt(Mem(s, p), 0)     \* RemoveAndReturnOnlyChild
         IN Bind(PutMem(s, p, [Mem(s, p) EXCEPT !.size = 0]), LAMBDA s1 :
            Bind(FetchNode(UpdateRootPageId([s1 EXCEPT !.root = child_id], 0), child_id),
                 LAMBDA s3 :
              [s |-> BpmUnpinPage(PutMem(s3, child_id,
                                         [Mem(s3, child_id) EXCEPT !.par = INVALID_PAGE_ID]),
                                  child_id, TRUE),
               del |-> TRUE]))
  ELSE IF IsLeafPage(Mem(s, p)) /\ Mem(s, p).size = 0
    THEN [s |-> UpdateRootPageId([s EXCEPT !.root = INVALID_PAGE_ID], 0), del |-> TRUE]
  ELSE [s |-> s, del |-> FALSE]

\* Redistribute(neighbor_node, node, index)
Redistribute(s, sp, np, index) ==
  LET pp == Mem(s, np).par
  IN Bind(FetchNode(s, pp), LAMBDA s1 :
     Bind(IF IsLeafPage(Mem(s1, np))
            THEN IF index = 0
                   THEN Bind(LeafMoveFirstToEndOf(Mem(s1, sp), Mem(s1, np)), LAMBDA mv :
                        Bind(PutMem(PutMem(s1, sp, mv[1]), np, mv[2]), LAMBDA a :
                          PutMem(a, pp, SetKeyAt(Mem(a, pp), index + 1, KeyAt(Mem(a, sp), 0)))))
                   ELSE Bind(LeafMoveLastToFrontOf(Mem(s1, sp), Mem(s1, np)), LAMBDA mv :
                        Bind(PutMem(PutMem(s1, sp, mv[1]), np, mv[2]), LAMBDA a :
                          PutMem(a, pp, SetKeyAt(Mem(a, pp), index, KeyAt(Mem(a, np), 0)))))
            ELSE IF index = 0
                   THEN Bind(InternalMoveFirstToEndOf(s1, sp, np, KeyAt(Mem(s1, pp), index + 1)),
                             LAMBDA a :
                          PutMem(a, pp, SetKeyAt(Mem(a, pp), index + 1, KeyAt(Mem(a, sp), 0))))
                   ELSE Bind(InternalMoveLastToFrontOf(s1, sp, np, KeyAt(Mem(s1, pp), index)),
                             LAMBDA a :
                          PutMem(a, pp, SetKeyAt(Mem(a, pp), index, KeyAt(Mem(a, np), 0)))),
          LAMBDA s2 : BpmUnpinPage(s2, pp, TRUE)))

\* the end of every CoalesceOrRedistribute call that latched a sibling,
\* innermost call first: unpin the parent, unlatch and unpin the sibling
RECURSIVE Unwind(_, _)
Unwind(s, stack) ==
  IF stack = <<>> THEN s
  ELSE LET fr == stack[Len(stack)]
       IN Unwind(BpmUnpinPage(WUnlatch(BpmUnpinPage(s, fr[1], TRUE), fr[2]), fr[2], TRUE),
                 SubSeq(stack, 1, Len(stack) - 1))

\* the loop of Remove over the deleted page set
RECURSIVE DeleteLoop(_, _)
DeleteLoop(s, ds) ==
  IF ds = {} THEN s
  ELSE LET p == CHOOSE x \in ds : \A y \in ds : x <= y
       IN DeleteLoop(BpmDeletePage(s, p), ds \ {p})

\* Remove after CoalesceOrRedistribute(leaf_node) has returned should_delete
RemoveTail(s, t, should_delete) ==
  Bind(UnlockRoot(UnlockUnpinPages(
         IF should_delete THEN [s EXCEPT !.th[t].delset = @ \cup {s.th[t].leaf}] ELSE s,
         t), t), LAMBDA s2 :
    Finish([DeleteLoop(s2, s2.th[t].delset) EXCEPT !.th[t].delset = {}], t, 0))

\* CoalesceOrRedistribute(node) up to the point where it latches the
\* sibling, or to its end when it needs no sibling
CoalesceOrRedistribute(s, t, np) ==
  IF IsRootPage(Mem(s, np))
    THEN Bind(AdjustRoot(s, np), LAMBDA a :
           RemoveTail(Unwind(UnlockUnpinPages(a.s, t), s.th[t].stack), t, a.del))
  ELSE IF Mem(s, np).size >= GetMinSize(Mem(s, np))
    THEN RemoveTail(Unwind(UnlockUnpinPages(s, t), s.th[t].stack), t, FALSE)
  ELSE Bind(FetchNode(s, Mem(s, np).par), LAMBDA s1 :
         LET pp == Mem(s, np).par
             index == ValueIndex(Mem(s1, pp), np)
             sibling_page_id == ValueAt(Mem(s1, pp), IF index = 0 THEN 1 ELSE index - 1)
         IN [FetchNode(s1, sibling_page_id)
               EXCEPT !.th[t].pc = "latch_sibling", !.th[t].node = np,
                      !.th[t].parent = pp, !.th[t].index = index,
                      !.th[t].sibling = sibling_page_id,
                      !.th[t].stack = Append(@, <<pp, sibling_page_id>>)])

\* Coalesce(&sibling, &node, &parent, index): [s, parent]; the recursive
\* call on the parent follows in AfterSiblingLatch
Coalesce(s, t, sp, np, pp, index0) ==
  LET swap == index0 = 0
      node == IF swap THEN sp ELSE np
      neighbor == IF swap THEN np ELSE sp
      index == IF swap THEN 1 ELSE index0
      middle_key == KeyAt(Mem(s, pp), index)
  IN Bind(IF IsLeafPage(Mem(s, node))
            THEN Bind(LeafMoveAllTo(Mem(s, node), Mem(s, neighbor)), LAMBDA mv :
                   PutMem(PutMem(s, node, mv[1]), neighbor, mv[2]))
            ELSE [InternalMoveAllTo(s, node, neighbor, middle_key)
                    EXCEPT !.th[t].delset = @ \cup {node}],
          LAMBDA s1 : PutMem(s1, pp, InternalRemove(Mem(s1, pp), index)))

\* CoalesceOrRedistribute that redistributes two nodes of max_size entries
\* together
AfterSiblingLatchAtMax(s, t) ==
  LET np == s.th[t].node
      sp == s.th[t].sibling
      pp == s.th[t].parent
      index == s.th[t].index
  IN IF Mem(s, np).size + Mem(s, sp).size >= Mem(s, np).maxs
       THEN RemoveTail(Unwind(Redistribute(s, sp, np, index), s.th[t].stack), t, FALSE)
       ELSE CoalesceOrRedistribute(Coalesce(s, t, sp, np, pp, index), t, pp)

\* CoalesceOrRedistribute from "sibling_page->WLatch()" on
AfterSiblingLatch(s, t) ==
  LET np == s.th[t].node
      sp == s.th[t].sibling
      pp == s.th[t].parent
      index == s.th[t].index
  IN IF Mem(s, np).size + Mem(s, sp).size > Mem(s, np).maxs
       THEN RemoveTail(Unwind(Redistribute(s, sp, np, index), s.th[t].stack), t, FALSE)
       ELSE CoalesceOrRedistribute(Coalesce(s, t, sp, np, pp, index), t, pp)

\* Remove once FindLeafPageByOperation has returned the leaf
RemoveFromLeaf(s, t) ==
  LET p == s.th[t].page
  IN Bind(PutMem(s, p, LeafRemoveAndDeleteRecord(Mem(s, p), s.th[t].key)), LAMBDA s1 :
       IF Mem(s, p).size = Mem(s1, p).size
         THEN Finish(UnlockRoot(UnlockUnpinPages(s1, t), t), t, 0)
         ELSE CoalesceOrRedistribute([s1 EXCEPT !.th[t].leaf = p], t, p))

\* GetValue once FindLeafPage has returned the leaf
GetValueAtLeaf(s, t) ==
  LET p == s.th[t].page
      leaf_node == Mem(s, p)
      key == s.th[t].key
  IN Finish(BpmUnpinPage(RUnlatch(s, p), p, FALSE), t,
            IF LeafHas(leaf_node, key) THEN LeafValue(leaf_node, key) ELSE 0)

----------------------------------------------------------------------------
(***************************************************************************)
(* Index iterator: Begin(), then "*it" and "++it" until IsEnd(), then the  *)
(* destructor.  th[t].ret collects the keys the iterator has yielded.      *)
(***************************************************************************)
IterFuel == MaxKey + MaxPageId + 2

RECURSIVE IterLoop(_, _, _, _)
IterLoop(s, t, index, fuel) ==
  LET p == s.th[t].page
      leaf_ == Mem(s, p)
  IN IF fuel = 0 THEN [s EXCEPT !.ub = TRUE]
     ELSE IF leaf_.next = INVALID_PAGE_ID /\ index = leaf_.size     \* IsEnd()
       THEN Finish(BpmUnpinPage(RUnlatch(s, p), p, FALSE), t, s.th[t].ret)
     ELSE IF index + 1 = leaf_.size /\ leaf_.next # INVALID_PAGE_ID
       THEN [FetchNode(s, leaf_.next)
               EXCEPT !.th[t].ret = Append(@, KeyAt(leaf_, index)),
                      !.th[t].pc = "iter_next", !.th[t].child = leaf_.next]
     ELSE IterLoop([s EXCEPT !.th[t].ret = Append(@, KeyAt(leaf_, index))],
                   t, index + 1, fuel - 1)

\* an operator++ that leaves page p for page np without a latch on np
IterSwitchNoLatch(s, p, np) == BpmUnpinPage(RUnlatch(s, p), p, FALSE)

\* operator++ from "next_page->RLatch()" to the unpin of the page it leaves
IterSwitch(s, p, np) == BpmUnpinPage(RUnlatch(RLatch(s, np), p), p, FALSE)

\* operator++ from "next_page->RLatch()" on, and the rest of the iteration
IterNext(s, t) ==
  LET p == s.th[t].page
      np == s.th[t].child
  IN IterLoop([IterSwitch(s, p, np)
                 EXCEPT !.th[t].page = np, !.th[t].pc = "iterate"], t, 0, IterFuel)

\* An iterator by itself is [page, index]: page_ (and leaf_) and index_.
\* IndexIterator::~IndexIterator
IterDestroy(s, it) == BpmUnpinPage(RUnlatch(s, it.page), it.page, FALSE)

\* IsEnd()
IterIsEnd(s, it) ==
  Mem(s, it.page).next = INVALID_PAGE_ID /\ it.index = Mem(s, it.page).size

\* operator++(), one thread: [s, it]
IterPrefix(s, it) ==
  LET leaf_ == Mem(s, it.page)
  IN IF it.index + 1 = leaf_.size /\ leaf_.next # INVALID_PAGE_ID
       THEN [s |-> IterSwitch(FetchNode(s, leaf_.next), it.page, leaf_.next),
             it |-> [page |-> leaf_.next, index |-> 0]]
       ELSE [s |-> s, it |-> [it EXCEPT !.index = @ + 1]]

\* operator++(int): the copy "clone" shares page_ with the iterator and takes
\* no pin and no latch of its own; it is returned by value and destroyed by
\* the caller: [s, it, clone], s before the destructor of the copy runs
IterPostfix(s, it) ==
  Bind(IterPrefix(s, it), LAMBDA r : [s |-> r.s, it |-> r.it, clone |-> it])

----------------------------------------------------------------------------
(***************************************************************************)
(* A thread runs one operation at a time.  Its steps end where the code    *)
(* can block (root_latch_.lock(), RLatch, WLatch) and where it returns     *)
(* from FindLeafPageByOperation.                                           *)
(***************************************************************************)
IsFind(op) == op \in {"get", "scan", "begin"}

StartOp(s, t, op, key, val) ==
  LET s0 == [s EXCEPT !.th[t] = [IdleThread EXCEPT !.op = op, !.key = key, !.val = val,
                                                   !.pageset = s.th[t].pageset,
                                                   !.delset = s.th[t].delset]]
  IN IF op = "insert" THEN [s0 EXCEPT !.th[t].pc = "ins_guard"]
     ELSE IF op = "remove" /\ s0.root = INVALID_PAGE_ID           \* IsEmpty()
       THEN Finish(s0, t, 0)
     ELSE [s0 EXCEPT !.th[t].pc = "find_lock",
                     !.th[t].ret = IF op \in {"scan", "begin"} THEN <<>> ELSE 0]

\* the lock_guard block of Insert
InsertGuard(s, t) ==
  IF s.root = INVALID_PAGE_ID
    THEN Finish(StartNewTree(s, s.th[t].key, s.th[t].val), t, 1)
    ELSE [s EXCEPT !.th[t].pc = "find_lock"]

\* FindLeafPageByOperation up to the latch of the root page
FindLock(s, t) ==
  [FetchNode([s EXCEPT !.rlatch = t, !.th[t].rl = TRUE], s.root)
     EXCEPT !.th[t].pc = "latch_root", !.th[t].page = s.root]

\* the head of the while loop: the leaf is reached, or the child is chosen
\* and fetched
Descend(s, t) ==
  LET c == s.th[t]
      node == Mem(s, c.page)
      child_page_id == IF c.op = "scan" THEN ValueAt(node, 0) ELSE Lookup(node, c.key)
  IN IF IsLeafPage(node) THEN [s EXCEPT !.th[t].pc = "at_leaf"]
     ELSE [FetchNode(s, child_page_id)
             EXCEPT !.th[t].pc = "latch_child", !.th[t].child = child_page_id]

LatchRoot(s, t) ==
  LET c == s.th[t]
  IN IF IsFind(c.op)
       THEN Descend(RLatch(s, c.page), t)
       ELSE Descend([WLatch(s, t, c.page) EXCEPT !.th[t].pageset = Append(@, c.page)], t)

\* FIND: child_page->RLatch()
FindLatchChild(s, t) == RLatch(s, s.th[t].child)

\* a FIND descent that keeps the read latch of the page it leaves
FindReleaseUnpinOnly(s, t) ==
  BpmUnpinPage(UnlockRoot(s, t), s.th[t].page, FALSE)

\* FIND, with the child latched: the tree latch, then the read latch and
\* the pin of the page the descent leaves, are released
FindReleaseParent(s, t) ==
  BpmUnpinPage(RUnlatch(UnlockRoot(s, t), s.th[t].page), s.th[t].page, FALSE)

LatchChild(s, t) ==
  LET c == s.th[t]
  IN IF IsFind(c.op)
       THEN Descend([FindReleaseParent(FindLatchChild(s, t), t)
                       EXCEPT !.th[t].page = c.child], t)
       ELSE Descend([(IF IsSafe(Mem(s, c.page), c.op)
                        THEN UnlockRoot(UnlockUnpinPages(WLatch(s, t, c.child), t), t)
                        ELSE WLatch(s, t, c.child))
                       EXCEPT !.th[t].pageset = Append(@, c.child),
                              !.th[t].page = c.child], t)

\* the caller of FindLeafPageByOperation takes over
AtLeaf(s, t) ==
  LET op == s.th[t].op
  IN IF op = "insert" THEN InsertIntoLeaf(s, t)
     ELSE IF op = "remove" THEN RemoveFromLeaf(s, t)
     ELSE IF op = "get" THEN GetValueAtLeaf(UnlockRoot(s, t), t)
     ELSE IterLoop([UnlockRoot(s, t) EXCEPT !.th[t].pc = "iterate"], t,
                   IF op = "begin" THEN LeafKeyIndex(Mem(s, s.th[t].page), s.th[t].key) ELSE 0,
                   IterFuel)

LatchSibling(s, t) == AfterSiblingLatch(WLatch(s, t, s.th[t].sibling), t)

\* the thread is not blocked
CanStep(s, t) ==
  LET c == s.th[t]
  IN IF c.pc \in {"ins_guard", "find_lock"} THEN s.rlatch = 0
     ELSE IF c.pc = "latch_root"
       THEN IF IsFind(c.op) THEN CanRLatch(s, c.page) ELSE CanWLatch(s, c.page)
     ELSE IF c.pc = "latch_child"
       THEN IF IsFind(c.op) THEN CanRLatch(s, c.child) ELSE CanWLatch(s, c.child)
     ELSE IF c.pc = "latch_sibling" THEN CanWLatch(s, c.sibling)
     ELSE IF c.pc = "iter_next" THEN CanRLatch(s, c.child)
     ELSE c.pc = "at_leaf"

Step(s, t) ==
  Bind(IF s.th[t].pc = "ins_guard" THEN InsertGuard(s, t)
       ELSE IF s.th[t].pc = "find_lock" THEN FindLock(s, t)
       ELSE IF s.th[t].pc = "latch_root" THEN LatchRoot(s, t)
       ELSE IF s.th[t].pc = "latch_child" THEN LatchChild(s, t)
       ELSE IF s.th[t].pc = "latch_sibling" THEN LatchSibling(s, t)
       ELSE IF s.th[t].pc = "iter_next" THEN IterNext(s, t)
       ELSE AtLeaf(s, t),
       LAMBDA r : IF r.oom THEN [r.thrown EXCEPT !.th[t].pc = "oom"]
                  ELSE IF r.ub THEN [r EXCEPT !.th[t].pc = "ub"] ELSE r)

\* one thread alone: the operation runs until it returns or blocks for good
RunFuel == MaxPageId + MaxKey + 8

RECURSIVE RunLoop(_, _, _)
RunLoop(s, t, fuel) ==
  IF s.ub \/ ~CanStep(s, t) THEN s
  ELSE IF fuel = 0 THEN [s EXCEPT !.ub = TRUE, !.th[t].pc = "ub"]
  ELSE RunLoop(Step(s, t), t, fuel - 1)

Run(s, t) == RunLoop(s, t, RunFuel)

----------------------------------------------------------------------------
(***************************************************************************)
(* Catalog (include/catalog/catalog.h).  Table and index names are         *)
(* numbers, a schema is a number; a TableMetadata is [schema, name, oid],  *)
(* an IndexInfo is [name, index_oid, table_name].  A pointer returned by   *)
(* the catalog is the object it points to; nullptr is NoTable or NoIndex.  *)
(* The table heap and the index built by CreateIndex are left out: a new   *)
(* table holds no tuple.                                                   *)
(***************************************************************************)
MaxTableNames == 2       \* table names 1..MaxTableNames
MaxIndexNames == 2       \* index names 1..MaxIndexNames
MaxSchema == 2           \* schemas 1..MaxSchema

TableNames == 1 .. MaxTableNames
IndexNames == 1 .. MaxIndexNames
Schemas == 1 .. MaxSchema
TableOids == 0 .. MaxTableNames
IndexOids == 0 .. (MaxTableNames * MaxIndexNames)
NoOid == -1              \* "find(...) == end()"
NoTable == [schema |-> 0, name |-> 0, oid |-> NoOid]
NoIndex == [name |-> 0, index_oid |-> NoOid, table_name |-> 0]
NoIndexNames == [has |-> FALSE, idx |-> [i \in IndexNames |-> NoOid]]

Catalog == [tables |-> tables_, names |-> names_, next_table_oid |-> next_table_oid_,
            indexes |-> indexes_, index_names |-> index_names_,
            next_index_oid |-> next_index_oid_]

\* Catalog::Catalog
NewCatalog ==
  [tables |-> [o \in TableOids |-> NoTable], names |-> [n \in TableNames |-> NoOid],
   next_table_oid |-> 0,
   indexes |-> [o \in IndexOids |-> NoIndex],
   index_names |-> [n \in TableNames |-> NoIndexNames],
   next_index_oid |-> 0]

\* CreateTable that does not advance next_table_oid_
CreateTableSameOid(c, table_name, schema) ==
  LET table_oid == c.next_table_oid
      meta == [schema |-> schema, name |-> table_name, oid |-> table_oid]
  IN [meta |-> meta,
      c |-> [c EXCEPT !.names[table_name] = table_oid,
                      !.tables[table_oid] = meta,
                      !.index_names[table_name] = [has |-> TRUE, idx |-> NoIndexNames.idx]]]

\* CreateTable: [meta, c].  The caller passes a name that names_ does not
\* hold (BUSTUB_ASSERT).
CreateTable(c, table_name, schema) ==
  LET table_oid == c.next_table_oid
      meta == [schema |-> schema, name |-> table_name, oid |-> table_oid]
  IN [meta |-> meta,
      c |-> [c EXCEPT !.next_table_oid = @ + 1,
                      !.names[table_name] = table_oid,
                      !.tables[table_oid] = meta,
                      !.index_names[table_name] = [has |-> TRUE, idx |-> NoIndexNames.idx]]]

\* GetTable(const std::string &)
GetTableByName(c, table_name) ==
  IF table_name \notin TableNames \/ c.names[table_name] = NoOid THEN NoTable
  ELSE c.tables[c.names[table_name]]

\* GetTable(table_oid_t)
GetTableByOid(c, table_oid) ==
  IF table_oid \notin TableOids THEN NoTable ELSE c.tables[table_oid]

\* CreateIndex without the test for an index of that name
CreateIndexAgain(c, index_name, table_name) ==
  IF c.names[table_name] = NoOid THEN [info |-> NoIndex, c |-> c]
  ELSE LET index_oid == c.next_index_oid
           info == [name |-> index_name, index_oid |-> index_oid, table_name |-> table_name]
       IN [info |-> info,
           c |-> [c EXCEPT !.next_index_oid = @ + 1,
                           !.indexes[index_oid] = info,
                           !.index_names[table_name].idx[index_name] = index_oid]]

\* CreateIndex: [info, c]
CreateIndex(c, index_name, table_name) ==
  IF c.names[table_name] = NoOid THEN [info |-> NoIndex, c |-> c]
  ELSE IF c.index_names[table_name].idx[index_name] # NoOid THEN [info |-> NoIndex, c |-> c]
  ELSE LET index_oid == c.next_index_oid
           info == [name |-> index_name, index_oid |-> index_oid, table_name |-> table_name]
       IN [info |-> info,
           c |-> [c EXCEPT !.next_index_oid = @ + 1,
                           !.indexes[index_oid] = info,
                           !.index_names[table_name].idx[index_name] = index_oid]]

\* GetIndex(index_name, table_name)
GetIndex(c, index_name, table_name) ==
  IF ~c.index_names[table_name].has THEN NoIndex
  ELSE IF c.index_names[table_name].idx[index_name] = NoOid THEN NoIndex
  ELSE c.indexes[c.index_names[table_name].idx[index_name]]

\* GetTableIndexes: one entry for each entry of index_names_[table_name].
\* The vector follows the iteration order of an unordered_map, which is not
\* fixed; here it is in the order of the index names.
RECURSIVE TableIndexesFrom(_, _, _)
TableIndexesFrom(c, table_name, i) ==
  IF i > MaxIndexNames THEN <<>>
  ELSE (IF c.index_names[table_name].idx[i] # NoOid
          THEN <<c.indexes[c.index_names[table_name].idx[i]]>> ELSE <<>>)
       \o TableIndexesFrom(c, table_name, i + 1)

GetTableIndexes(c, table_name) ==
  IF c.names[table_name] = NoOid THEN <<>>
  ELSE TableIndexesFrom(c, table_name, 1)

----------------------------------------------------------------------------
(***************************************************************************)
(* Initial states.                                                         *)
(***************************************************************************)
InitCatalogVars ==
  /\ tables_ = NewCatalog.tables /\ names_ = NewCatalog.names
  /\ next_table_oid_ = NewCatalog.next_table_oid
  /\ indexes_ = NewCatalog.indexes /\ index_names_ = NewCatalog.index_names
  /\ next_index_oid_ = NewCatalog.next_index_oid
  /\ cat_ret = [op |-> "none", table_name |-> 0, index_name |-> 0,
                table |-> NoTable, index |-> NoIndex]
  /\ created = [n \in TableNames |-> NoTable]

\* BufferPoolManager constructor: every frame is in the free list
\* no page function has been called
NoCall == [fn |-> "none", key |-> 0, op |-> "none", ret |-> INVALID_PAGE_ID, safe |-> FALSE]

InitPoolBase ==
  /\ pages_ = [f \in Frames |-> [page_id_ |-> INVALID_PAGE_ID, pin_count_ |-> 0,
                                 is_dirty_ |-> FALSE, data |-> 0]]
  /\ page_table_ = [p \in PoolPages |-> NoFrame]
  /\ free_list_ = [i \in 1 .. PoolSize |-> i - 1]
  /\ lru_list_ = <<>>
  /\ lru_map_ = {}
  /\ disk_ = [p \in PoolPages |-> 0]
  /\ cur_max_page_id_ = 0
  /\ bpm_ret = [op |-> "none", page |-> INVALID_PAGE_ID, frame |-> NoFrame, ok |-> TRUE]
  /\ host_pin = 0
  /\ held = [p \in PoolPages |-> [n |-> 0, f |-> NoFrame]]
  /\ content = [p \in PoolPages |-> 0]
  /\ calls = 0
  /\ lru_ret = [op |-> "none", frame |-> NoFrame, ok |-> TRUE, size |-> 0]
  /\ lru_want = [frame |-> NoFrame, ok |-> TRUE, size |-> 0]
  /\ unpin_order = <<>>
  /\ InitCatalogVars
  /\ fn_ret = NoCall

InitPoolVars == InitPoolBase /\ page_arg = ZeroNode

\* BPlusTree constructor on a pool whose page 0 is the header page, which
\* the owner of the pool has created and keeps pinned
EmptyTree(leaf_max_size, internal_max_size) ==
  [lmax |-> leaf_max_size, imax |-> internal_max_size,
   mem |-> [p \in Pids |-> ZeroNode], dsk |-> [p \in Pids |-> ZeroNode],
   res |-> [p \in Pids |-> p = HEADER_PAGE_ID],
   pin |-> [p \in Pids |-> IF p = HEADER_PAGE_ID THEN 1 ELSE 0],
   dty |-> [p \in Pids |-> FALSE], lat |-> [p \in Pids |-> FreeLatch],
   root |-> INVALID_PAGE_ID, rlatch |-> 0, next |-> HEADER_PAGE_ID + 1,
   hdr |-> [has |-> FALSE, root |-> INVALID_PAGE_ID],
   th |-> [t \in Threads |-> IdleThread], ub |-> FALSE,
   cap |-> AmplePool, oom |-> FALSE, thrown |-> <<>>]

TreeIs(s) ==
  /\ leaf_max_size_ = s.lmax /\ internal_max_size_ = s.imax
  /\ mem = s.mem /\ dsk = s.dsk /\ res = s.res /\ pin = s.pin /\ dty = s.dty
  /\ lat = s.lat /\ root_page_id_ = s.root /\ root_latch_ = s.rlatch
  /\ next_page_id = s.next /\ hdr = s.hdr /\ th = s.th /\ ub = s.ub
  /\ tree_pool_size = s.cap

TreeBecomes(s) ==
  /\ leaf_max_size_' = s.lmax /\ internal_max_size_' = s.imax
  /\ mem' = s.mem /\ dsk' = s.dsk /\ res' = s.res /\ pin' = s.pin /\ dty' = s.dty
  /\ lat' = s.lat /\ root_page_id_' = s.root /\ root_latch_' = s.rlatch
  /\ next_page_id' = s.next /\ hdr' = s.hdr /\ th' = s.th /\ ub' = s.ub
  /\ tree_pool_size' = s.cap

NoKeys == [k \in Keys |-> 0]

InitNewTree ==
  /\ TreeIs(EmptyTree(MaxLeafMaxSize, MinInternalMaxSize)) /\ ref = NoKeys /\ want = 0 /\ used = {} /\ nops = 0

----------------------------------------------------------------------------
(***************************************************************************)
(* Buffer pool specification: callers drive the pool.  A caller fetches    *)
(* pages that have been allocated, unpins what it holds, writes a page it  *)
(* holds through the Page pointer it was given, and may flush or delete    *)
(* any allocated page id.                                                  *)
(***************************************************************************)
PoolBecomes(B) ==
  /\ calls < MaxCalls /\ calls' = calls + 1
  /\ pages_' = B.pages /\ page_table_' = B.pt /\ free_list_' = B.free
  /\ lru_list_' = B.rep.list /\ lru_map_' = B.rep.map /\ disk_' = B.disk
  /\ cur_max_page_id_' = B.next
  /\ UNCHANGED <<lru_ret, lru_want, unpin_order, catvars, fnvars>>

Allocated == {p \in PoolPages : p < cur_max_page_id_}

FetchPage(p) ==
  /\ p \in Allocated
  /\ held[p].n < MaxPin
  /\ LET r == FetchPageImpl(Pool, p)
     IN /\ PoolBecomes(r.B)
        /\ bpm_ret' = [op |-> "fetch", page |-> p, frame |-> r.frame,
                       ok |-> r.frame # NoFrame]
        /\ host_pin' = r.hostpin
        /\ held' = IF r.frame = NoFrame THEN held
                   ELSE [held EXCEPT ![p] = [n |-> @.n + 1, f |-> r.frame]]
  /\ UNCHANGED <<content, treevars>>

UnpinPage(p, is_dirty) ==
  /\ p \in Allocated
  /\ held[p].n > 0
  /\ LET r == UnpinPageImpl(Pool, p, is_dirty)
     IN /\ PoolBecomes(r.B)
        /\ bpm_ret' = [op |-> "unpin", page |-> p, frame |-> NoFrame, ok |-> r.ok]
  /\ held' = [held EXCEPT ![p].n = @ - 1]
  /\ UNCHANGED <<host_pin, content, treevars>>

\* the caller writes v into the page it holds, then unpins it as dirty
WriteUnpin(p, v) ==
  /\ p \in Allocated
  /\ held[p].n > 0
  /\ LET B0 == [Pool EXCEPT !.pages[held[p].f].data = v]
         r == UnpinPageImpl(B0, p, TRUE)
     IN /\ PoolBecomes(r.B)
        /\ bpm_ret' = [op |-> "write", page |-> p, frame |-> held[p].f, ok |-> r.ok]
  /\ held' = [held EXCEPT ![p].n = @ - 1]
  /\ content' = [content EXCEPT ![p] = v]
  /\ UNCHANGED <<host_pin, treevars>>

FlushPage(p) ==
  /\ p \in Allocated \cup {INVALID_PAGE_ID}
  /\ LET r == FlushPageImpl(Pool, p)
     IN /\ PoolBecomes(r.B)
        /\ bpm_ret' = [op |-> "flush", page |-> p, frame |-> NoFrame, ok |-> r.ok]
  /\ UNCHANGED <<host_pin, held, content, treevars>>

NewPage ==
  /\ cur_max_page_id_ <= MaxPoolPage
  /\ LET r == NewPageImpl(Pool)
     IN /\ PoolBecomes(r.B)
        /\ bpm_ret' = [op |-> "new", page |-> r.page_id, frame |-> r.frame,
                       ok |-> r.frame # NoFrame]
        /\ host_pin' = r.hostpin
        /\ held' = IF r.frame = NoFrame THEN held
                   ELSE [held EXCEPT ![r.page_id] = [n |-> 1, f |-> r.frame]]
  /\ UNCHANGED <<content, treevars>>

DeletePage(p) ==
  /\ p \in Allocated
  /\ LET r == DeletePageImpl(Pool, p)
     IN /\ PoolBecomes(r.B)
        /\ bpm_ret' = [op |-> "delete", page |-> p, frame |-> NoFrame, ok |-> r.ok]
        \* a page that has been deleted has no contents to keep
        /\ content' = IF r.ok THEN [content EXCEPT ![p] = 0] ELSE content
  /\ UNCHANGED <<host_pin, held, treevars>>

FlushAllPages ==
  /\ PoolBecomes(FlushAllPagesImpl(Pool))
  /\ bpm_ret' = [op |-> "flush_all", page |-> INVALID_PAGE_ID, frame |-> NoFrame,
                 ok |-> TRUE]
  /\ UNCHANGED <<host_pin, held, content, treevars>>

InitPool == InitPoolVars /\ InitNewTree

NextPool ==
  \/ \E p \in PoolPages : FetchPage(p)
  \/ \E p \in PoolPages, d \in BOOLEAN : UnpinPage(p, d)
  \/ \E p \in PoolPages, v \in 1 .. MaxData : WriteUnpin(p, v)
  \/ \E p \in PoolPages \cup {INVALID_PAGE_ID} : FlushPage(p)
  \/ NewPage
  \/ \E p \in PoolPages : DeletePage(p)
  \/ FlushAllPages

SpecPool == InitPool /\ [][NextPool]_vars

----------------------------------------------------------------------------
(***************************************************************************)
(* Single-threaded tree specification: one thread, whose transaction is    *)
(* reused, calls Insert, Remove and GetValue one after the other.  A call  *)
(* that never returns leaves the thread where it is blocked.  Behaviours   *)
(* start from the new tree or from a tree that earlier calls of the same   *)
(* thread have built.                                                      *)
(***************************************************************************)
MaxOps == 3        \* calls made in one behaviour, after the calls that built the tree

\* the reference map after an operation, and what the operation returns
RefAfter(m, op, key, val) ==
  IF op = "insert" THEN (IF m[key] = 0 THEN [m EXCEPT ![key] = val] ELSE m)
  ELSE IF op = "remove" THEN [m EXCEPT ![key] = 0]
  ELSE m

RefReturn(m, op, key) ==
  IF op = "insert" THEN (IF m[key] = 0 THEN 1 ELSE 0)
  ELSE IF op = "get" THEN m[key]
  ELSE 0

\* the tree and the reference map after thread 1 has inserted the keys of
\* ks, in this order, each with value 1
\* the state after a call that has returned
HasReturned(s) == s.th[1].pc = "idle" /\ ~s.ub

\* the next call is made when the one before has returned
BuildStep(b, key) ==
  IF b.s.th[1].pc = "idle" /\ ~b.s.ub
    THEN [s |-> Run(StartOp(b.s, 1, "insert", key, 1), 1),
          m |-> RefAfter(b.m, "insert", key, 1)]
    ELSE b

RECURSIVE Built(_, _, _)
Built(ks, leaf_max_size, internal_max_size) ==
  IF ks = <<>>
    THEN [s |-> EmptyTree(leaf_max_size, internal_max_size), m |-> NoKeys]
    ELSE BuildStep(Built(SubSeq(ks, 1, Len(ks) - 1), leaf_max_size, internal_max_size),
                   ks[Len(ks)])

TwoLeaves == <<2, 4, 6, 8>>
ThreeLeaves == <<1, 2, 3, 4, 5, 6>>
ThreeLevels == <<1, 2, 5, 6, 3, 7, 4, 8>>

TreePrefixes == {<<>>, TwoLeaves, ThreeLeaves, ThreeLevels}

InitTree ==
  /\ InitPoolVars
  /\ \E l \in LeafMaxSizes, i \in InternalMaxSizes, ks \in TreePrefixes :
       Bind(Built(ks, l, i), LAMBDA b :
         HasReturned(b.s) /\ TreeIs(b.s) /\ ref = b.m /\ want = b.s.th[1].ret)
  /\ used = {} /\ nops = 0

Idle == th[1].pc = "idle"

Call(op, key, val) ==
  /\ Idle /\ ~ub
  /\ nops < MaxOps
  /\ Bind(Run(StartOp(TS, 1, op, key, val), 1),
          LAMBDA r : r.next <= MaxPageId + 1 /\ TreeBecomes(r))
  /\ ref' = RefAfter(ref, op, key, val)
  /\ want' = RefReturn(ref, op, key)
  /\ nops' = nops + 1
  /\ UNCHANGED <<used, poolvars>>

TreeInsert(key, val) == Call("insert", key, val)

TreeRemove(key) == Call("remove", key, 0)

TreeGetValue(key) == Call("get", key, 0)

NextTree ==
  \/ \E k \in Keys, v \in Vals : TreeInsert(k, v)
  \/ \E k \in Keys : TreeRemove(k)
  \/ \E k \in Keys : TreeGetValue(k)

SpecTree == InitTree /\ [][NextTree]_vars

----------------------------------------------------------------------------
(***************************************************************************)
(* Small pool specification: the single-threaded tree, new, on a pool of   *)
(* few frames, one of which holds the pinned header page.  An operation    *)
(* that the pool refuses a frame ends in pc "oom", and the caller makes no *)
(* further call.                                                           *)
(***************************************************************************)
MinTreePoolSize == 1
MaxTreePoolSize == 3

TreePoolSizes == MinTreePoolSize .. MaxTreePoolSize

InitSmallPool ==
  /\ InitPoolVars
  /\ \E l \in LeafMaxSizes, i \in InternalMaxSizes, c \in TreePoolSizes :
       TreeIs([EmptyTree(l, i) EXCEPT !.cap = c])
  /\ ref = NoKeys /\ want = 0 /\ used = {} /\ nops = 0

SpecSmallPool == InitSmallPool /\ [][NextTree]_vars

----------------------------------------------------------------------------
(***************************************************************************)
(* Concurrent tree specification: threads, each with a transaction of its  *)
(* own, call Insert and Remove on pairwise distinct keys of a tree that    *)
(* earlier calls have built, and one of them may iterate over the tree     *)
(* from Begin().  A thread takes one step at a time; a step ends where the *)
(* thread may have to wait: at the tree latch, at a page latch, or with    *)
(* the return of the call.                                                 *)
(***************************************************************************)
MaxConcOps == 2    \* calls the threads make in one behaviour

FullLeaf == <<1, 3, 4, 8, 6>>

OneKey == <<1>>

ConcPrefixes == {<<>>, OneKey, TwoLeaves, FullLeaf}

InitConc ==
  /\ InitPoolVars
  /\ \E l \in LeafMaxSizes, i \in InternalMaxSizes, ks \in ConcPrefixes :
       Bind(Built(ks, l, i), LAMBDA b :
         /\ HasReturned(b.s)
         /\ TreeIs([b.s EXCEPT !.th = [t \in Threads |-> IdleThread]])
         /\ ref = b.m)
  /\ want = 0 /\ used = {} /\ nops = 0

\* thread t calls Insert or Remove
ConcStart(t, op, key, val) ==
  /\ ~ub
  /\ th[t].pc = "idle"
  /\ nops < MaxConcOps
  /\ key \notin used
  /\ TreeBecomes(StartOp(TS, t, op, key, val))
  /\ ref' = RefAfter(ref, op, key, val)
  /\ used' = used \cup {key}
  /\ nops' = nops + 1
  /\ UNCHANGED <<want, poolvars>>

\* thread t calls Begin() to iterate to the end; one iteration is started
\* in a behaviour, on a tree that has a root
ConcScan(t) ==
  /\ root_page_id_ # INVALID_PAGE_ID
  /\ ConcStart(t, "scan", 0, 0)

\* thread t, which is inside a call and does not have to wait, goes on to
\* the next place where it may have to
ConcStep(t) ==
  /\ ~ub
  /\ th[t].pc \notin {"idle", "ub"}
  /\ CanStep(TS, t)
  /\ Bind(Step(TS, t), LAMBDA r : r.next <= MaxPageId + 1 /\ TreeBecomes(r))
  /\ UNCHANGED <<ref, want, used, nops, poolvars>>

NextConc ==
  \/ \E t \in Threads, k \in Keys, v \in Vals : ConcStart(t, "insert", k, v)
  \/ \E t \in Threads, k \in Keys : ConcStart(t, "remove", k, 0)
  \/ \E t \in Threads : ConcScan(t)
  \/ \E t \in Threads : ConcStep(t)

SpecConc == InitConc /\ [][NextConc]_vars

----------------------------------------------------------------------------
(***************************************************************************)
(* Replacer specification: a caller drives an LRUReplacer of capacity      *)
(* PoolSize directly with Victim, Pin, Unpin and Size, on one frame id     *)
(* more than the capacity.  unpin_order records the history of the calls:  *)
(* the frames whose last Unpin took effect and that no Pin or Victim has   *)
(* removed since, in the order of those Unpin calls.                       *)
(***************************************************************************)
RepFrames == 0 .. PoolSize

RefTracked == SeqSet(unpin_order)

RepBecomes(r) ==
  /\ calls < MaxCalls /\ calls' = calls + 1
  /\ lru_list_' = r.list /\ lru_map_' = r.map
  /\ UNCHANGED <<pages_, page_table_, free_list_, disk_, cur_max_page_id_,
                 bpm_ret, host_pin, held, content, catvars, fnvars, treevars>>

RepVictim ==
  /\ LET r == LRUVictim(Replacer)
     IN /\ RepBecomes(r.r)
        /\ lru_ret' = [op |-> "victim", frame |-> r.frame, ok |-> r.ok,
                       size |-> LRUSize(r.r)]
  /\ IF unpin_order = <<>>
       THEN /\ lru_want' = [frame |-> NoFrame, ok |-> FALSE, size |-> 0]
            /\ unpin_order' = unpin_order
       ELSE /\ lru_want' = [frame |-> Head(unpin_order), ok |-> TRUE,
                            size |-> Len(unpin_order) - 1]
            /\ unpin_order' = Tail(unpin_order)

RepPin(f) ==
  /\ LET r == LRUPin(Replacer, f)
     IN /\ RepBecomes(r)
        /\ lru_ret' = [op |-> "pin", frame |-> f, ok |-> TRUE, size |-> LRUSize(r)]
  /\ unpin_order' = RemoveFromSeq(unpin_order, f)
  /\ lru_want' = [frame |-> f, ok |-> TRUE,
                  size |-> Cardinality(RefTracked \ {f})]

RepUnpin(f) ==
  /\ LET r == LRUUnpin(Replacer, f, PoolSize)
     IN /\ RepBecomes(r)
        /\ lru_ret' = [op |-> "unpin", frame |-> f, ok |-> TRUE, size |-> LRUSize(r)]
  /\ unpin_order' = IF f \in RefTracked \/ Cardinality(RefTracked) >= PoolSize
                      THEN unpin_order
                      ELSE Append(unpin_order, f)
  /\ lru_want' = [frame |-> f, ok |-> TRUE,
                  size |-> Cardinality(SeqSet(unpin_order'))]

InitReplacer == InitPoolVars /\ InitNewTree

NextReplacer ==
  \/ RepVictim
  \/ \E f \in RepFrames : RepPin(f)
  \/ \E f \in RepFrames : RepUnpin(f)

SpecReplacer == InitReplacer /\ [][NextReplacer]_vars

----------------------------------------------------------------------------
(***************************************************************************)
(* Catalog specification: a caller creates tables, each under a name the   *)
(* catalog does not hold yet, and indexes under any names.                 *)
(***************************************************************************)
CatalogBecomes(c) ==
  /\ tables_' = c.tables /\ names_' = c.names /\ next_table_oid_' = c.next_table_oid
  /\ indexes_' = c.indexes /\ index_names_' = c.index_names
  /\ next_index_oid_' = c.next_index_oid
  /\ UNCHANGED <<pages_, page_table_, free_list_, lru_list_, lru_map_, disk_,
                 cur_max_page_id_, bpm_ret, host_pin, held, content, calls,
                 lru_ret, lru_want, unpin_order, fnvars, treevars>>

CatCreateTable(table_name, schema) ==
  /\ names_[table_name] = NoOid
  /\ LET r == CreateTable(Catalog, table_name, schema)
     IN /\ CatalogBecomes(r.c)
        /\ cat_ret' = [op |-> "create_table", table_name |-> table_name, index_name |-> 0,
                       table |-> r.meta, index |-> NoIndex]
        /\ created' = [created EXCEPT ![table_name] = r.meta]

CatCreateIndex(index_name, table_name) ==
  /\ LET r == CreateIndex(Catalog, index_name, table_name)
     IN /\ CatalogBecomes(r.c)
        /\ cat_ret' = [op |-> "create_index", table_name |-> table_name,
                       index_name |-> index_name, table |-> NoTable, index |-> r.info]
  /\ UNCHANGED created

InitCatalog == InitPoolVars /\ InitNewTree

NextCatalog ==
  \/ \E n \in TableNames, sch \in Schemas : CatCreateTable(n, sch)
  \/ \E i \in IndexNames, n \in TableNames : CatCreateIndex(i, n)

SpecCatalog == InitCatalog /\ [][NextCatalog]_vars

----------------------------------------------------------------------------
(***************************************************************************)
(* Page function specification: Lookup and IsSafe are called on a tree     *)
(* page.  The pages are internal pages of 1 to max_size + 1 children, as   *)
(* they are between a Remove of a slot or an InsertNodeAfter and what      *)
(* follows it, and leaf pages of 1 to max_size pairs; a page is the root   *)
(* or has a parent; the keys of a page are strictly increasing.            *)
(***************************************************************************)
RECURSIVE SortedSeq(_)
SortedSeq(S) ==
  IF S = {} THEN <<>>
  ELSE LET m == CHOOSE x \in S : \A y \in S : x <= y
       IN <<m>> \o SortedSeq(S \ {m})

\* an internal page whose children are the pages 1, 2, ... and whose keys
\* in the slots from 1 on are ks
InternalWith(parent_id, max_size, ks) ==
  [InternalInit(parent_id, max_size)
     EXCEPT !.arr = [i \in 1 .. ArrCap |->
                       IF i = 1 THEN <<0, 1>>
                       ELSE IF i <= Len(ks) + 1 THEN <<ks[i - 1], i>>
                       ELSE NoPair],
            !.size = Len(ks) + 1]

ParentIds == {INVALID_PAGE_ID, HEADER_PAGE_ID + 1}

InternalPages ==
  {InternalWith(par, m, SortedSeq(S)) :
     par \in ParentIds, m \in InternalMaxSizes,
     S \in {T \in SUBSET Keys : Cardinality(T) <= MaxInternalMaxSize}}

LeafPages ==
  {LeafWith(LeafInit(par, m), [i \in 1 .. Cardinality(S) |-> <<SortedSeq(S)[i], 1>>]) :
     par \in ParentIds, m \in LeafMaxSizes,
     S \in {T \in SUBSET Keys : Cardinality(T) >= 1 /\ Cardinality(T) <= MaxLeafMaxSize}}

PageArgs == {n \in InternalPages \cup LeafPages : n.size <= n.maxs + 1}

PageFnUnchanged ==
  UNCHANGED <<page_arg, pages_, page_table_, free_list_, lru_list_, lru_map_, disk_,
              cur_max_page_id_, bpm_ret, host_pin, held, content, calls,
              lru_ret, lru_want, unpin_order, catvars, treevars>>

CallLookup(key) ==
  /\ page_arg.typ = INTERNAL_PAGE
  /\ fn_ret' = [NoCall EXCEPT !.fn = "lookup", !.key = key, !.ret = Lookup(page_arg, key)]
  /\ PageFnUnchanged

CallIsSafe(op) ==
  /\ fn_ret' = [NoCall EXCEPT !.fn = "is_safe", !.op = op, !.safe = IsSafe(page_arg, op)]
  /\ PageFnUnchanged

InitPageFn ==
  /\ InitPoolBase /\ InitNewTree
  /\ page_arg \in PageArgs

NextPageFn ==
  \/ \E k \in Keys : CallLookup(k)
  \/ \E op \in {"insert", "remove"} : CallIsSafe(op)

SpecPageFn == InitPageFn /\ [][NextPageFn]_vars

----------------------------------------------------------------------------
(***************************************************************************)
(* Properties of the buffer pool.                                          *)
(***************************************************************************)
InFreeList(f) == f \in SeqSet(free_list_)

InReplacer(f) == f \in lru_map_ \/ f \in SeqSet(lru_list_)

\* C4: fetch and new_page never take as host a frame whose pin_count is
\* above 0: the host of the last fetch/new was unpinned when it was taken,
\* and no pinned frame is in the free list or in the replacer.
C4_PinnedFrameNeverHost ==
  /\ host_pin = 0
  /\ \A f \in Frames :
       pages_[f].pin_count_ > 0 => ~InFreeList(f) /\ ~InReplacer(f)

\* C5: a frame has pin_count 0 iff it is in exactly one of the replacer and
\* the free list, and a frame with pin_count above 0 is in neither.
C5_UnpinnedIffReplacerXorFree ==
  \A f \in Frames :
    /\ pages_[f].pin_count_ = 0 <=> (InFreeList(f) # InReplacer(f))
    /\ pages_[f].pin_count_ > 0 => ~InFreeList(f) /\ ~InReplacer(f)

\* C6: page_table_ maps p to f iff frame f holds page p; no two page ids
\* map to one frame and no page id maps to a frame of the free list.
C6_PageTableMatchesFrames ==
  /\ \A p \in PoolPages, f \in Frames :
       page_table_[p] = f <=> pages_[f].page_id_ = p
  /\ \A p, q \in PoolPages :
       page_table_[p] # NoFrame /\ page_table_[p] = page_table_[q] => p = q
  /\ \A p \in PoolPages : page_table_[p] # NoFrame => ~InFreeList(page_table_[p])

\* C7: a fetch of a page that a caller has written and unpinned as dirty
\* returns a frame holding the contents last written to that page.
C7_FetchReturnsLastWritten ==
  (bpm_ret.op = "fetch" /\ bpm_ret.ok /\ content[bpm_ret.page] # 0)
    => pages_[bpm_ret.frame].data = content[bpm_ret.page]

----------------------------------------------------------------------------
(***************************************************************************)
(* Properties of the tree, one thread.                                     *)
(***************************************************************************)
\* the thread's last call has returned normally
Returned == Idle /\ ~ub

\* what a call made in the current state does
After(op, key, val) == Run(StartOp(TS, 1, op, key, val), 1)

ReturnsFrom(s) == s.th[1].pc = "idle" /\ ~s.ub

\* contents of a page: those of its frame, or those on disk
NodeIn(s, p) == IF p \in Pids THEN (IF s.res[p] THEN s.mem[p] ELSE s.dsk[p]) ELSE ZeroNode

Node(p) == NodeIn(TS, p)

\* the leaf reached from page p by first children
RECURSIVE LeftMost(_, _)
LeftMost(p, fuel) ==
  IF fuel = 0 \/ p \notin Pids \/ Node(p).typ # INTERNAL_PAGE THEN p
  ELSE LeftMost(ValueAt(Node(p), 0), fuel - 1)

\* the leaves met from leaf p by next_page_id
RECURSIVE Chain(_, _)
Chain(p, fuel) ==
  IF fuel = 0 \/ p \notin Pids \/ Node(p).typ # LEAF_PAGE THEN <<>>
  ELSE <<p>> \o Chain(Node(p).next, fuel - 1)

LeafChain ==
  IF root_page_id_ = INVALID_PAGE_ID THEN <<>>
  ELSE Chain(LeftMost(root_page_id_, MaxPageId), MaxPageId + 1)

RECURSIVE ChainKeysOf(_)
ChainKeysOf(ps) ==
  IF ps = <<>> THEN <<>>
  ELSE [i \in 1 .. Node(ps[1]).size |-> KeyAt(Node(ps[1]), i - 1)]
         \o ChainKeysOf(SubSeq(ps, 2, Len(ps)))

ChainKeys == ChainKeysOf(LeafChain)

\* the pages of the tree: those met from the root by child pointers
RECURSIVE Below(_, _)
Below(p, fuel) ==
  IF fuel = 0 \/ p \notin Pids THEN {}
  ELSE IF Node(p).typ # INTERNAL_PAGE THEN {p}
  ELSE {p} \cup UNION {Below(ValueAt(Node(p), i), fuel - 1) : i \in 0 .. (Node(p).size - 1)}

TreePages ==
  IF root_page_id_ = INVALID_PAGE_ID THEN {} ELSE Below(root_page_id_, MaxPageId)

TreeLeaves == {p \in TreePages : Node(p).typ = LEAF_PAGE}

TreeKeys == UNION {{KeyAt(Node(p), i) : i \in 0 .. (Node(p).size - 1)} : p \in TreeLeaves}

StrictlyIncreasing(ks) == \A i, j \in 1 .. Len(ks) : i < j => ks[i] < ks[j]

NoRepeat(ps) == \A i, j \in 1 .. Len(ps) : i # j => ps[i] # ps[j]

RefKeys == {k \in Keys : ref[k] # 0}

\* C1: after a sequence of inserts and removes the tree agrees with the
\* reference map: the last call returned what the map says (insert true iff
\* the key was absent), and in a tree that has a root get_value(k) returns,
\* for every key k, with the value the map holds for k, or false when the
\* map holds none.
C1_TreeAgreesWithMap ==
  Returned =>
    /\ th[1].ret = want
    /\ root_page_id_ # INVALID_PAGE_ID =>
         \A k \in Keys :
           Bind(After("get", k, 0), LAMBDA g : ReturnsFrom(g) /\ g.th[1].ret = ref[k])

\* C2: insert(k,v) of an absent key followed by get_value(k) returns v;
\* insert of a key that is present returns false and leaves every page,
\* and the root id, unchanged.
C2_InsertThenGet ==
  Returned /\ root_page_id_ # INVALID_PAGE_ID =>
    \A k \in Keys, v \in Vals :
      Bind(After("insert", k, v), LAMBDA i :
        /\ ReturnsFrom(i)
        /\ IF ref[k] = 0
             THEN /\ i.th[1].ret = 1
                  /\ Bind(Run(StartOp(i, 1, "get", k, 0), 1),
                          LAMBDA g : ReturnsFrom(g) /\ g.th[1].ret = v)
             ELSE /\ i.th[1].ret = 0
                  /\ i.root = root_page_id_
                  /\ \A p \in Pids : NodeIn(i, p) = Node(p))

\* C3 (structure): next_page_id from the leftmost leaf visits every leaf of
\* the tree once, and the keys met are strictly increasing and are the keys
\* of the tree.
LeafChainSorted ==
  Returned =>
    /\ NoRepeat(LeafChain)
    /\ SeqSet(LeafChain) = TreeLeaves
    /\ StrictlyIncreasing(ChainKeys)
    /\ SeqSet(ChainKeys) = TreeKeys
    /\ TreeKeys = RefKeys

\* C3: after every insert or remove the leaf chain is sorted and complete,
\* and, in a tree that has a root, the iteration from begin() with ++ until
\* is_end yields the keys of the chain.
C3_LeafChainAndIteration ==
  /\ LeafChainSorted
  /\ Returned /\ root_page_id_ # INVALID_PAGE_ID =>
       Bind(After("scan", 0, 0), LAMBDA it : ReturnsFrom(it) /\ it.th[1].ret = ChainKeys)

\* pin_count_ of a page that no operation is using: the header page stays
\* pinned by the owner of the pool
BasePin(p) == IF p = HEADER_PAGE_ID THEN 1 ELSE 0

\* C8: when insert, remove or get_value has returned, every pin count is
\* what it was before the call, no page latch and not the tree latch is
\* held, and the page set of the transaction is empty.
C8_AllReleasedOnReturn ==
  Returned =>
    /\ \A p \in Pids : pin[p] = BasePin(p)
    /\ \A p \in Pids : lat[p] = FreeLatch
    /\ root_latch_ = 0
    /\ th[1].pageset = <<>>

----------------------------------------------------------------------------
(***************************************************************************)
(* Properties of the tree, concurrent threads.                             *)
(***************************************************************************)
\* thread t is inside a call and has to wait
Waiting(t) == th[t].pc \notin {"idle", "ub"} /\ ~CanStep(TS, t)

\* the page whose latch thread t is about to take
WantedPage(t) ==
  IF th[t].pc = "latch_root" THEN th[t].page
  ELSE IF th[t].pc = "latch_sibling" THEN th[t].sibling
  ELSE th[t].child

\* thread t waits for a latch that thread u holds
WaitsFor(t, u) ==
  /\ Waiting(t)
  /\ IF th[t].pc \in {"ins_guard", "find_lock"} THEN root_latch_ = u
     ELSE lat[WantedPage(t)].w = u

\* no set of threads in which each waits for a latch another one holds
NoWaitCycle ==
  \A S \in SUBSET Threads :
    S # {} => \E t \in S : \A u \in S : ~WaitsFor(t, u)

\* a thread that goes for the latch of a sibling holds the write latch of
\* the parent
SiblingUnderParent ==
  \A t \in Threads : th[t].pc = "latch_sibling" => lat[th[t].parent].w = t

\* C9: no interleaving of inserting and removing threads reaches a
\* deadlock (threads that each wait for a latch the next one holds), and a
\* thread latches a sibling only while it holds the write latch of the
\* common parent.
C9_NoDeadlock == NoWaitCycle /\ SiblingUnderParent

RECURSIVE KeysBelow(_, _)
KeysBelow(p, fuel) ==
  IF fuel = 0 \/ p \notin Pids THEN {}
  ELSE IF Node(p).typ # INTERNAL_PAGE
    THEN {KeyAt(Node(p), i) : i \in 0 .. (Node(p).size - 1)}
  ELSE UNION {KeysBelow(ValueAt(Node(p), i), fuel - 1) : i \in 0 .. (Node(p).size - 1)}

\* keys left of a separator are below it, keys right of it are not
SeparatorsOk ==
  \A p \in TreePages :
    Node(p).typ = INTERNAL_PAGE =>
      \A i \in 1 .. (Node(p).size - 1) :
        /\ \A k \in KeysBelow(ValueAt(Node(p), i - 1), MaxPageId) : k < KeyAt(Node(p), i)
        /\ \A k \in KeysBelow(ValueAt(Node(p), i), MaxPageId) : k >= KeyAt(Node(p), i)

\* the root has no parent, and a child names the page that holds it
ParentPointersOk ==
  /\ root_page_id_ # INVALID_PAGE_ID => Node(root_page_id_).par = INVALID_PAGE_ID
  /\ \A p \in TreePages :
       Node(p).typ = INTERNAL_PAGE =>
         \A i \in 0 .. (Node(p).size - 1) : Node(ValueAt(Node(p), i)).par = p

AllReturned == ~ub /\ \A t \in Threads : th[t].pc = "idle"

\* C10: once all threads that ran inserts and removes on distinct keys have
\* finished, the keys of the tree are those of the sequential run, and leaf
\* chain order, separator keys and parent pointers hold.
C10_ConcurrentEqualsSequential ==
  AllReturned =>
    /\ TreeKeys = RefKeys
    /\ SeqSet(LeafChain) = TreeLeaves
    /\ StrictlyIncreasing(ChainKeys)
    /\ SeqSet(ChainKeys) = TreeKeys
    /\ SeparatorsOk
    /\ ParentPointersOk

----------------------------------------------------------------------------
(***************************************************************************)
(* Latching discipline of the concurrent threads.                          *)
(***************************************************************************)
\* the pairs a node page holds
Entries(n) == [i \in 1 .. n.size |-> Slot(n, i - 1)]

\* contents of page p after the step
NodeAfter(p) == IF res'[p] THEN mem'[p] ELSE dsk'[p]

\* the step changes the pairs of a page that was a node of the tree
ChangesEntries(p) ==
  /\ Node(p).typ # INVALID_INDEX_PAGE
  /\ Entries(NodeAfter(p)) # Entries(Node(p))

\* thread t holds the write latch of page p while it runs its next step:
\* it held it before, or the step begins by taking it
HoldsWLatch(t, p) ==
  \/ lat[p].w = t
  \/ th[t].pc = "latch_sibling" /\ th[t].sibling = p

\* C11: a thread that changes the entries of a node (node, sibling or
\* parent, in a split, a coalesce or a redistribution) holds the write
\* latch of that node while it does.
C11_ChangesUnderWriteLatch ==
  [][\A t \in Threads :
       ConcStep(t) => \A p \in Pids : ChangesEntries(p) => HoldsWLatch(t, p)]_vars

\* thread t holds the tree latch while it runs its next step: it held it
\* before, or the step begins with root_latch_.lock()
HoldsTreeLatch(t) ==
  \/ root_latch_ = t
  \/ th[t].pc \in {"ins_guard", "find_lock"}

\* the step of thread t writes root_page_id_
WritesRoot(t) == ConcStep(t) /\ root_page_id_' # root_page_id_

\* the step of thread t reads root_page_id_ to test emptiness (Insert,
\* Remove) or to start a descent (FindLeafPageByOperation)
ReadsRoot(t) ==
  \/ \E k \in Keys : ConcStart(t, "remove", k, 0)
  \/ ConcStep(t) /\ th[t].pc \in {"ins_guard", "find_lock"}

\* C12 (writes): root_page_id_ changes only in a step of a thread that
\* holds the tree latch
RootWrittenUnderTreeLatch ==
  [][\A t \in Threads : WritesRoot(t) => HoldsTreeLatch(t)]_vars

\* C12 (reads): root_page_id_ is read for the emptiness test and for the
\* start of a descent only by a thread that holds the tree latch
RootReadUnderTreeLatch ==
  [][\A t \in Threads : ReadsRoot(t) => HoldsTreeLatch(t)]_vars

\* C12: every write of root_page_id_ and every read of it that tests
\* emptiness or starts a descent is made by a thread holding the tree latch.
C12_RootIdUnderTreeLatch ==
  [][\A t \in Threads : WritesRoot(t) \/ ReadsRoot(t) => HoldsTreeLatch(t)]_vars

\* thread u holds a read latch of page p: a reader keeps the latch of its
\* current page while it goes for the next one
HoldsRLatch(u, p) ==
  /\ IsFind(th[u].op)
  /\ th[u].pc \in {"latch_child", "iter_next"}
  /\ th[u].page = p

\* thread t waits for a latch that thread u holds, as reader or as writer
BlockedBy(t, u) ==
  /\ Waiting(t)
  /\ IF th[t].pc \in {"ins_guard", "find_lock"} THEN root_latch_ = u
     ELSE \/ lat[WantedPage(t)].w = u
          \/ ~IsFind(th[t].op) /\ HoldsRLatch(u, WantedPage(t))

\* an iterator that holds its leaf and waits for the next leaf
Advancing(t) == th[t].op = "scan" /\ th[t].pc = "iter_next"

\* C13: an iterator that advances along the leaf chain is never part of a
\* deadlock: there is no set of threads, one of them such an iterator, in
\* which every thread waits for a latch that a thread of the set holds.
C13_IteratorNeverDeadlocks ==
  \A S \in SUBSET Threads :
    (\E t \in S : Advancing(t)) => \E t \in S : \A u \in S : ~BlockedBy(t, u)

----------------------------------------------------------------------------
(***************************************************************************)
(* Further properties of the tree, one thread.                             *)
(***************************************************************************)
\* C14: with one thread and a pool in which no fetch fails, every call of
\* insert, remove and get_value returns: no call is left waiting for a page
\* latch or the tree latch that an earlier call of the thread has kept.
C14_EveryCallReturns == ~ub => th[1].pc = "idle"

\* C15: after every insert or remove every node of the tree but the root
\* has min_size <= size <= max_size, with min_size ceil(L/2) for a leaf and
\* ceil((I+1)/2) for an internal node; so have both halves of a split.
C15_SizeWithinBounds ==
  Returned =>
    \A p \in TreePages \ {root_page_id_} :
      GetMinSize(Node(p)) <= Node(p).size /\ Node(p).size <= Node(p).maxs

\* C16: after every insert or remove, in every internal node and for every
\* slot i >= 1, the keys stored below child i-1 are < key_at(i) and the keys
\* stored below child i are >= key_at(i).
C16_SeparatorsOrdered == Returned => SeparatorsOk

\* no internal node of the tree holds a page id in two slots
NoChildTwice ==
  \A p \in TreePages :
    Node(p).typ = INTERNAL_PAGE =>
      \A i, j \in 0 .. (Node(p).size - 1) :
        i # j => ValueAt(Node(p), i) # ValueAt(Node(p), j)

\* C17: after every insert or remove the parent_page_id of every node but
\* the root names the internal node whose child array holds the node's page
\* id, and holds it once; the parent_page_id of the root is INVALID.
C17_ParentPointers == Returned => ParentPointersOk /\ NoChildTwice

\* the leaf a descent for key arrives at, from page p
RECURSIVE LeafFor(_, _, _)
LeafFor(p, key, fuel) ==
  IF fuel = 0 \/ p \notin Pids \/ Node(p).typ # INTERNAL_PAGE THEN p
  ELSE LeafFor(Lookup(Node(p), key), key, fuel - 1)

\* the call that led to state s took a new page, as Split does
TookNewPage(s) == s.next # next_page_id

\* C18: an insertion that brings a leaf to max_size - 1 entries does not
\* split the leaf, and the next insertion into that leaf splits it.
C18_LeafSplitsAfterMaxSizeMinusOne ==
  Returned /\ root_page_id_ # INVALID_PAGE_ID =>
    \A k \in Keys :
      Bind(LeafFor(root_page_id_, k, MaxPageId), LAMBDA p :
        Bind(After("insert", k, 1), LAMBDA i :
          Node(p).typ = LEAF_PAGE /\ ~LeafHas(Node(p), k) /\ ReturnsFrom(i) =>
            /\ Node(p).size + 1 = Node(p).maxs - 1 =>
                 ~TookNewPage(i) /\ NodeIn(i, p).size = Node(p).maxs - 1
            /\ Node(p).size = Node(p).maxs - 1 => TookNewPage(i)))

\* what a call made in state s does
AfterIn(s, op, key, val) == Run(StartOp(s, 1, op, key, val), 1)

\* IsEmpty() in state s
IsEmptyIn(s) == s.root = INVALID_PAGE_ID

Children(n) == {ValueAt(n, i) : i \in 0 .. (n.size - 1)}

\* state s holds a tree of one leaf with the one pair <<key, val>>
OneLeafTree(s, key, val) ==
  /\ ~IsEmptyIn(s)
  /\ NodeIn(s, s.root).typ = LEAF_PAGE
  /\ NodeIn(s, s.root).par = INVALID_PAGE_ID
  /\ LeafPairs(NodeIn(s, s.root)) = <<<<key, val>>>>

\* a remove that returned in state r never leaves an internal root with one
\* child: a child of the old root is the root, and names no parent
RootCollapses(r) ==
  /\ ~IsEmptyIn(r) /\ NodeIn(r, r.root).typ = INTERNAL_PAGE => NodeIn(r, r.root).size >= 2
  /\ ~IsEmptyIn(r) /\ r.root # root_page_id_ =>
       /\ Node(root_page_id_).typ = INTERNAL_PAGE
       /\ r.root \in Children(Node(root_page_id_))
       /\ NodeIn(r, r.root).typ \in {LEAF_PAGE, INTERNAL_PAGE}
       /\ NodeIn(r, r.root).par = INVALID_PAGE_ID

\* removing the last key of a root leaf empties the tree, and the insert
\* that follows starts a tree of one leaf
LastKeyEmptiesTree(r, key) ==
  Node(root_page_id_).typ = LEAF_PAGE /\ LeafPairs(Node(root_page_id_)) = <<<<key, ref[key]>>>> =>
    /\ IsEmptyIn(r)
    /\ r.next <= MaxPageId =>
         \A k \in Keys, v \in Vals :
           Bind(AfterIn(r, "insert", k, v), LAMBDA i :
             ReturnsFrom(i) /\ i.th[1].ret = 1 /\ OneLeafTree(i, k, v))

\* C19: when a remove leaves the root an internal node with one child, that
\* child becomes the root and its parent_page_id is INVALID; when a remove
\* deletes the last key of a root leaf, root_page_id becomes INVALID
\* (is_empty() holds) and the insert that follows starts a tree of one leaf
\* that holds exactly the inserted key.
C19_RootCollapseAndEmptyTree ==
  Returned /\ root_page_id_ # INVALID_PAGE_ID =>
    \A key \in Keys :
      Bind(After("remove", key, 0), LAMBDA r :
        ReturnsFrom(r) => RootCollapses(r) /\ LastKeyEmptiesTree(r, key))

\* a root leaf with pages allocated after it: the root was an internal node
\* and a remove has made this leaf the root; it now holds its last key, whose
\* removal empties the tree, and an insert into the empty tree starts a new one
C19_CollapsedThenLastKey ==
  /\ Returned /\ th[1].op = "remove"
  /\ root_page_id_ # INVALID_PAGE_ID
  /\ Node(root_page_id_).typ = LEAF_PAGE
  /\ Node(root_page_id_).par = INVALID_PAGE_ID
  /\ Node(root_page_id_).size = 1
  /\ next_page_id > root_page_id_ + 1
  /\ Bind(After("remove", KeyAt(Node(root_page_id_), 0), 0), LAMBDA r :
       /\ ReturnsFrom(r) /\ IsEmptyIn(r) /\ r.next <= MaxPageId
       /\ \E k \in Keys, v \in Vals : OneLeafTree(AfterIn(r, "insert", k, v), k, v))

----------------------------------------------------------------------------
(***************************************************************************)
(* Further properties of the buffer pool.                                  *)
(***************************************************************************)
AllPinned(B) == \A f \in Frames : B.pages[f].pin_count_ > 0

\* the call that led from pool B to pool B1 with page p as its page took its
\* host frame from the front of the free list and evicted no resident page
HostFromFreeList(B, B1, frame, p) ==
  /\ frame = Head(B.free)
  /\ B1.free = Tail(B.free)
  /\ \A q \in PoolPages \ {p} : B1.pt[q] = B.pt[q]
  /\ B1.disk = B.disk

\* C20: a fetch of a page that is not resident, and new_page, return none
\* exactly when every frame is pinned, and then leave the page table, the
\* frames, the free list, the replacer and the next page id as they were;
\* when the free list is not empty the host frame is taken from the free
\* list and no resident page is evicted.
C20_NoneIffAllPinned ==
  /\ \A p \in PoolPages :
       page_table_[p] = NoFrame =>
         Bind(FetchPageImpl(Pool, p), LAMBDA r :
           /\ r.frame = NoFrame <=> AllPinned(Pool)
           /\ r.frame = NoFrame => r.B = Pool
           /\ free_list_ # <<>> => HostFromFreeList(Pool, r.B, r.frame, p))
  /\ Bind(NewPageImpl(Pool), LAMBDA r :
       /\ r.frame = NoFrame <=> AllPinned(Pool)
       /\ r.frame = NoFrame => r.B = Pool
       /\ free_list_ # <<>> =>
            r.page_id = cur_max_page_id_
            /\ HostFromFreeList(Pool, r.B, r.frame, r.page_id))

\* UnpinPageImpl(p, is_dirty) in pool B: what the call may change
UnpinContract(B, p, is_dirty) ==
  Bind(UnpinPageImpl(B, p, is_dirty), LAMBDA r :
    IF B.pt[p] = NoFrame \/ B.pages[B.pt[p]].pin_count_ = 0
      THEN ~r.ok /\ r.B = B
      ELSE Bind(B.pt[p], LAMBDA f :
             /\ r.ok
             /\ r.B.pages[f].pin_count_ = B.pages[f].pin_count_ - 1
             /\ r.B.pages[f].is_dirty_ = (B.pages[f].is_dirty_ \/ is_dirty)
             /\ r.B.pages[f].page_id_ = B.pages[f].page_id_
             /\ r.B.pages[f].data = B.pages[f].data
             /\ \A g \in Frames \ {f} : r.B.pages[g] = B.pages[g]
             /\ r.B.pt = B.pt /\ r.B.free = B.free
             /\ r.B.disk = B.disk /\ r.B.next = B.next
             /\ IF r.B.pages[f].pin_count_ = 0
                  THEN f \in r.B.rep.map
                       /\ (f \notin B.rep.map => r.B.rep.list = <<f>> \o B.rep.list)
                  ELSE r.B.rep = B.rep))

UnpinAsSpecified ==
  /\ \A f \in Frames : pages_[f].pin_count_ >= 0
  /\ \A p \in PoolPages, d \in BOOLEAN : UnpinContract(Pool, p, d)

\* a step that clears the dirty bit of a frame which keeps its page is a
\* flush of that page or a flush of all pages
DirtyUntilFlushed ==
  \A f \in Frames :
    (/\ pages_[f].is_dirty_ /\ ~pages_'[f].is_dirty_
     /\ pages_[f].page_id_ # INVALID_PAGE_ID
     /\ pages_'[f].page_id_ = pages_[f].page_id_)
      => \/ bpm_ret'.op = "flush_all"
         \/ bpm_ret'.op = "flush" /\ bpm_ret'.page = pages_[f].page_id_

\* C21: unpin(page_id, dirty) returns false and changes nothing when the
\* page is not resident or its pin_count is 0, so that no pin_count is ever
\* negative; otherwise it takes 1 from pin_count, puts the frame into the
\* replacer exactly when pin_count reaches 0, and does not clear the dirty
\* bit: a dirty page stays dirty until it is evicted, deleted or flushed.
C21_UnpinContract == []UnpinAsSpecified /\ [][DirtyUntilFlushed]_vars

\* DeletePageImpl(p) in pool B: the three cases of the call
DeleteContract(B, p) ==
  Bind(DeletePageImpl(B, p), LAMBDA r :
    IF B.pt[p] = NoFrame
      THEN r.ok /\ r.B = B
    ELSE IF B.pages[B.pt[p]].pin_count_ > 0
      THEN ~r.ok /\ r.B = B
    ELSE /\ r.ok
         /\ r.B.pt[p] = NoFrame
         /\ B.pt[p] \in SeqSet(r.B.free)
         /\ B.pt[p] \notin r.B.rep.map
         /\ B.pt[p] \notin SeqSet(r.B.rep.list))

\* C22: delete_page(p) returns true and changes nothing when p is not
\* resident; returns false and changes nothing when p is pinned; and for a
\* resident p with pin_count 0 it returns true, takes p out of the page
\* table, puts its frame into the free list and leaves it out of the replacer.
C22_DeleteContract == \A p \in PoolPages : DeleteContract(Pool, p)

\* a delete of a pinned page has just failed, and the pool holds a resident
\* page that can be deleted (its frame is in the replacer) and a page id
\* that is not resident
C22_AllThreeCases ==
  /\ bpm_ret.op = "delete" /\ ~bpm_ret.ok
  /\ page_table_[bpm_ret.page] # NoFrame
  /\ pages_[page_table_[bpm_ret.page]].pin_count_ > 0
  /\ \E p \in PoolPages :
       /\ page_table_[p] # NoFrame
       /\ pages_[page_table_[p]].pin_count_ = 0
       /\ page_table_[p] \in lru_map_
       /\ DeletePageImpl(Pool, p).ok
       /\ DeletePageImpl(Pool, p).B.pt[p] = NoFrame
  /\ \E p \in PoolPages : page_table_[p] = NoFrame

Resident(B) == {q \in PoolPages : B.pt[q] # NoFrame}

\* pool B1 differs from pool B at most in the dirty bit of the frames that
\* hold the pages ps and in the disk copy of those pages
OnlyFlushed(B, B1, ps) ==
  /\ B1.pt = B.pt /\ B1.free = B.free /\ B1.rep = B.rep /\ B1.next = B.next
  /\ \A f \in Frames :
       /\ B1.pages[f].pin_count_ = B.pages[f].pin_count_
       /\ B1.pages[f].page_id_ = B.pages[f].page_id_
       /\ B1.pages[f].data = B.pages[f].data
       /\ B1.pages[f].is_dirty_ # B.pages[f].is_dirty_ =>
            ~B1.pages[f].is_dirty_ /\ \E q \in ps : B.pt[q] = f
  /\ \A q \in DOMAIN B.disk : B1.disk[q] # B.disk[q] => q \in ps

\* C23: flush(page_id), for a page id that is resident or not, and
\* flush_all leave the page table, every pin count, the free list and the
\* replacer as they were; they change at most the dirty bit of the flushed
\* resident pages and the disk copy of those pages.
C23_FlushChangesOnlyDirtyAndDisk ==
  /\ \A p \in PoolPages \cup {INVALID_PAGE_ID} :
       OnlyFlushed(Pool, FlushPageImpl(Pool, p).B, {p} \cap Resident(Pool))
  /\ OnlyFlushed(Pool, FlushAllPagesImpl(Pool), Resident(Pool))


----------------------------------------------------------------------------
(***************************************************************************)
(* Properties of the replacer.                                             *)
(***************************************************************************)
VictimNow == LRUVictim(Replacer)

\* C24: whatever calls the replacer has received, Victim returns and removes
\* the tracked frame whose last effective Unpin is the oldest, and returns
\* false without a change when no frame is tracked; the tracked frames are
\* exactly those unpinned and not removed by Pin or Victim since, so a
\* removed frame is not returned again before a new Unpin; Pin of an
\* untracked frame changes nothing; Size is the number of tracked frames.
C24_VictimIsOldestUnpin ==
  /\ VictimNow.ok <=> unpin_order # <<>>
  /\ VictimNow.ok =>
       /\ VictimNow.frame = Head(unpin_order)
       /\ VictimNow.r.map = RefTracked \ {VictimNow.frame}
       /\ SeqSet(VictimNow.r.list) = RefTracked \ {VictimNow.frame}
  /\ ~VictimNow.ok => VictimNow.r = Replacer
  /\ lru_ret.op = "victim" =>
       lru_ret.ok = lru_want.ok /\ lru_ret.frame = lru_want.frame
  /\ lru_map_ = RefTracked /\ SeqSet(lru_list_) = RefTracked
  /\ \A f \in RepFrames \ RefTracked : LRUPin(Replacer, f) = Replacer
  /\ LRUSize(Replacer) = Cardinality(RefTracked)
  /\ lru_ret.size = lru_want.size

\* after some Pin and Unpin calls a Victim call returned a frame while a
\* frame with a smaller id, unpinned later, stays tracked
C24_VictimLeavesYounger ==
  /\ lru_ret.op = "victim" /\ lru_ret.ok
  /\ unpin_order # <<>> /\ Head(unpin_order) < lru_ret.frame
  /\ calls >= 5

\* C25: Unpin of a frame that is already tracked changes neither the order
\* nor the size, Unpin when Size equals the capacity changes nothing, no
\* frame is in the list twice, and Size never exceeds the capacity.
C25_UnpinNoOps ==
  /\ \A f \in lru_map_ : LRUUnpin(Replacer, f, PoolSize) = Replacer
  /\ LRUSize(Replacer) = PoolSize =>
       \A f \in RepFrames : LRUUnpin(Replacer, f, PoolSize) = Replacer
  /\ \A i, j \in 1 .. Len(lru_list_) : i # j => lru_list_[i] # lru_list_[j]
  /\ Cardinality(lru_map_) = Len(lru_list_)
  /\ LRUSize(Replacer) <= PoolSize
  /\ lru_ret.op = "unpin" => lru_ret.size <= PoolSize

\* the replacer is full, the front frame is not the last one unpinned: the
\* last call was an Unpin of an untracked frame, or of the frame at the back
C25_UnpinAtCapacity ==
  /\ lru_ret.op = "unpin" /\ LRUSize(Replacer) = PoolSize
  /\ lru_list_[1] # lru_ret.frame
  /\ \E f \in RepFrames : f \notin lru_map_ /\ LRUUnpin(Replacer, f, PoolSize) = Replacer

----------------------------------------------------------------------------
(***************************************************************************)
(* Further properties of the tree.                                         *)
(***************************************************************************)
\* C27: on every internal page of the tree, KeyAt, SetKeyAt, ValueAt and
\* Remove raise OUT_OF_RANGE for an index below 0 or not below the size,
\* and SetKeyAt and Remove leave the page as it was in that case.
C27_AccessorsRaiseOutOfRange ==
  \A p \in TreePages : Node(p).typ = INTERNAL_PAGE =>
    \A i \in (-1) .. Node(p).size :
      (i < 0 \/ i >= Node(p).size) =>
        /\ OutOfRange(Node(p), i)
        /\ i >= 0 => /\ SetKeyAt(Node(p), i, MaxKey) = Node(p)
                     /\ InternalRemove(Node(p), i) = Node(p)


\* C26: when an operation has ended with OUT_OF_MEMORY, every pin count is
\* what it was before the call, no page latch and not the tree latch is
\* held.
C26_AllReleasedOnOutOfMemory ==
  th[1].pc = "oom" =>
    /\ \A p \in Pids : pin[p] = BasePin(p)
    /\ \A p \in Pids : lat[p] = FreeLatch
    /\ root_latch_ = 0


----------------------------------------------------------------------------
C29_CreateIndexContract ==
  /\ \A i \in IndexNames, t \in TableNames :
       Bind(CreateIndex(Catalog, i, t), LAMBDA r :
         IF GetTableByName(Catalog, t) = NoTable \/ GetIndex(Catalog, i, t) # NoIndex
           THEN r.info = NoIndex /\ r.c = Catalog
           ELSE /\ r.info # NoIndex
                /\ r.info.name = i /\ r.info.table_name = t
                /\ r.info \notin SeqSet(GetTableIndexes(Catalog, t))
                /\ Len(GetTableIndexes(r.c, t)) = Len(GetTableIndexes(Catalog, t)) + 1
                /\ SeqSet(GetTableIndexes(r.c, t)) =
                     SeqSet(GetTableIndexes(Catalog, t)) \cup {r.info}
                /\ GetIndex(r.c, i, t) = r.info)
  /\ \A t \in TableNames :
       (\A i \in IndexNames : GetIndex(Catalog, i, t) = NoIndex) =>
         GetTableIndexes(Catalog, t) = <<>>
  /\ cat_ret.op = "create_index" /\ cat_ret.index # NoIndex =>
       GetIndex(Catalog, cat_ret.index_name, cat_ret.table_name) = cat_ret.index

\* the last CreateIndex was refused for a table that has that index, while
\* one table does not exist and one index can still be created
C29_DuplicateRefused ==
  /\ cat_ret.op = "create_index" /\ cat_ret.index = NoIndex
  /\ GetIndex(Catalog, cat_ret.index_name, cat_ret.table_name) # NoIndex
  /\ \E t \in TableNames : GetTableByName(Catalog, t) = NoTable
  /\ \E i \in IndexNames, t \in TableNames : CreateIndex(Catalog, i, t).info # NoIndex


----------------------------------------------------------------------------
(***************************************************************************)
(* Pages deleted by Remove.                                                *)
(***************************************************************************)
RECURSIVE BelowIn(_, _, _)
BelowIn(s, p, fuel) ==
  IF fuel = 0 \/ p \notin Pids THEN {}
  ELSE IF NodeIn(s, p).typ # INTERNAL_PAGE THEN {p}
  ELSE {p} \cup UNION {BelowIn(s, c, fuel - 1) : c \in Children(NodeIn(s, p))}

\* the pages reachable from the root of the tree in state s
TreePagesIn(s) == IF IsEmptyIn(s) THEN {} ELSE BelowIn(s, s.root, MaxPageId)

\* the pages that the pool holds in state s and has deleted in state r
DeletedBetween(s, r) == {p \in Pids : s.res[p] /\ ~r.res[p]}

\* C30: a remove deletes from the pool exactly the pages that were part of
\* the tree before it and are not after it, and deletes no page that is
\* reachable from the root when it returns.
C30_DeletedAreThoseThatLeft ==
  Returned =>
    \A k \in Keys :
      Bind(After("remove", k, 0), LAMBDA r :
        ReturnsFrom(r) =>
          /\ DeletedBetween(TS, r) = TreePagesIn(TS) \ TreePagesIn(r)
          /\ DeletedBetween(TS, r) \cap TreePagesIn(r) = {})


----------------------------------------------------------------------------
(***************************************************************************)
(* Properties of single functions of the tree.                             *)
(***************************************************************************)
\* C31: for every internal node with an internal left sibling of two or
\* more children, MoveLastToFrontOf(sibling -> node) with the separator of
\* the parent puts into slot 0 of the node the child of the sibling's last
\* slot, makes the node that child's parent, and keeps the children of the
\* two nodes together what they were, each held once.
C31_BorrowFromLeftMovesLastChild ==
  Returned =>
    \A pp \in TreePages :
      Node(pp).typ = INTERNAL_PAGE =>
        \A i \in 1 .. (Node(pp).size - 1) :
          Bind(<<ValueAt(Node(pp), i - 1), ValueAt(Node(pp), i)>>, LAMBDA pr :
            (Node(pr[1]).typ = INTERNAL_PAGE /\ Node(pr[2]).typ = INTERNAL_PAGE
               /\ Node(pr[1]).size >= 2) =>
              Bind(InternalMoveLastToFrontOf(TS, pr[1], pr[2], KeyAt(Node(pp), i)), LAMBDA r :
                /\ ~r.ub
                /\ ValueAt(NodeIn(r, pr[2]), 0) = ValueAt(Node(pr[1]), Node(pr[1]).size - 1)
                /\ NodeIn(r, ValueAt(Node(pr[1]), Node(pr[1]).size - 1)).par = pr[2]
                /\ Children(NodeIn(r, pr[1])) \cup Children(NodeIn(r, pr[2]))
                     = Children(Node(pr[1])) \cup Children(Node(pr[2]))
                /\ Cardinality(Children(NodeIn(r, pr[1]))) + Cardinality(Children(NodeIn(r, pr[2])))
                     = NodeIn(r, pr[1]).size + NodeIn(r, pr[2]).size))


\* the safety of a node as stated for the descent
SafeAsStated(n, op) ==
  IF op = "insert" THEN n.size < n.maxs
  ELSE IF ~IsRootPage(n) THEN n.size > GetMinSize(n)
  ELSE IF IsLeafPage(n) THEN n.size > 0
  ELSE n.size > 1

\* on every page of a tree that an operation has left, IsSafe is as stated
TreePagesSafeAsStated ==
  \A p \in TreePages, op \in {"insert", "remove"} :
    IsSafe(Node(p), op) <=> SafeAsStated(Node(p), op)

\* C32: IsSafe called on a page returns, for INSERT, size < max_size, and
\* for DELETE, size > min_size on a page that is not the root, size > 1 on
\* an internal root and size > 0 on a leaf root.
C32_IsSafeAsStated ==
  fn_ret.fn = "is_safe" => (fn_ret.safe <=> SafeAsStated(page_arg, fn_ret.op))

\* the child lookup(k) is stated to return on an internal page n
LookupAsStated(n, k) ==
  IF k < KeyAt(n, 1) THEN ValueAt(n, 0)
  ELSE IF k >= KeyAt(n, n.size - 1) THEN ValueAt(n, n.size - 1)
  ELSE ValueAt(n, CHOOSE i \in 1 .. (n.size - 2) :
                    KeyAt(n, i) <= k /\ k < KeyAt(n, i + 1))

StrictlyIncreasingKeys(n) ==
  \A i \in 1 .. (n.size - 2) : KeyAt(n, i) < KeyAt(n, i + 1)

\* C39: on an internal page of size >= 2 with strictly increasing keys in
\* the slots 1 .. size-1, Lookup(k) returns value_at(0) if k < key_at(1),
\* value_at(size-1) if k >= key_at(size-1), and otherwise value_at(i) for
\* the one i with key_at(i) <= k < key_at(i+1).
C39_LookupAsStated ==
  (fn_ret.fn = "lookup" /\ page_arg.size >= 2 /\ StrictlyIncreasingKeys(page_arg))
    => /\ fn_ret.ret = LookupAsStated(page_arg, fn_ret.key)
       /\ (KeyAt(page_arg, 1) <= fn_ret.key /\ fn_ret.key < KeyAt(page_arg, page_arg.size - 1))
            => Cardinality({i \in 1 .. (page_arg.size - 2) :
                              KeyAt(page_arg, i) <= fn_ret.key
                              /\ fn_ret.key < KeyAt(page_arg, i + 1)}) = 1

\* Lookup has answered for a key that lies strictly between two keys of a
\* page of four children or more, which the binary search finds by falling
\* out of its loop
C39_LookupBetweenKeys ==
  /\ fn_ret.fn = "lookup" /\ page_arg.size >= 4
  /\ KeyAt(page_arg, 1) < fn_ret.key /\ fn_ret.key < KeyAt(page_arg, page_arg.size - 1)
  /\ \A i \in 1 .. (page_arg.size - 1) : KeyAt(page_arg, i) # fn_ret.key
  /\ fn_ret.ret = LookupAsStated(page_arg, fn_ret.key)

\* C40: GetValue on an empty tree, one never filled or one emptied by
\* removes, returns false with an empty result, raises nothing, fetches no
\* page from the buffer pool and leaves no latch and no pin held.
C40_GetValueOnEmptyTree ==
  Returned /\ root_page_id_ = INVALID_PAGE_ID =>
    \A key \in Keys :
      Bind(After("get", key, 0), LAMBDA r :
        /\ ReturnsFrom(r) /\ r.th[1].ret = 0
        /\ r.res = res
        /\ \A p \in Pids : r.pin[p] = BasePin(p) /\ r.lat[p] = FreeLatch
        /\ r.rlatch = 0)

\* the states of a call of thread 1, a step at a time, from state s to the
\* state in which FindLeafPageByOperation has reached the leaf
RECURSIVE DescentFrom(_, _)
DescentFrom(s, fuel) ==
  IF fuel = 0 \/ s.ub \/ s.th[1].pc \notin {"find_lock", "latch_root", "latch_child"}
    THEN <<s>>
    ELSE <<s>> \o DescentFrom(Step(s, 1), fuel - 1)

\* pages of state s that are read-latched, and all read latches of s
RLatched(s) == {p \in Pids : s.lat[p].r > 0}

\* no operation holds anything in the current state
NothingHeld ==
  /\ \A p \in Pids : pin[p] = BasePin(p) /\ lat[p] = FreeLatch
  /\ root_latch_ = 0

\* thread 1 of state s holds one pin on each page of P and on no other page
PinsOn(s, P) == \A p \in Pids : s.pin[p] = BasePin(p) + (IF p \in P THEN 1 ELSE 0)

\* state s of a FIND descent that waits for the latch of a child: the page
\* it leaves is still read-latched and pinned; once the child is latched
\* two pages are latched, and the release leaves the child alone
CoupledAtChild(s) ==
  LET c == s.th[1]
  IN /\ RLatched(s) = {c.page} /\ s.lat[c.page].r = 1
     /\ PinsOn(s, {c.page, c.child})
     /\ Bind(FindLatchChild(s, 1), LAMBDA a :
          /\ RLatched(a) = {c.page, c.child}
          /\ PinsOn(a, {c.page, c.child})
          /\ Bind(FindReleaseParent(a, 1), LAMBDA r :
               /\ RLatched(r) = {c.child} /\ r.lat[c.child].r = 1
               /\ PinsOn(r, {c.child})
               /\ r.rlatch = 0))

\* state s in which the descent has reached the leaf, and the return of
\* FindLeafPageByOperation
ReturnsLeaf(s) ==
  LET c == s.th[1]
  IN /\ c.pc = "at_leaf"
     /\ Bind(UnlockRoot(s, 1), LAMBDA r :
          /\ IsLeafPage(Mem(r, c.page))
          /\ RLatched(r) = {c.page} /\ r.lat[c.page].r = 1
          /\ PinsOn(r, {c.page})
          /\ r.rlatch = 0 /\ ~r.th[1].rl)

FindDescentCoupled(seq) ==
  /\ \A i \in 1 .. Len(seq) :
       /\ ~seq[i].ub
       /\ Cardinality(RLatched(seq[i])) <= 2
       /\ \A p \in Pids : seq[i].lat[p].w = 0
       /\ seq[i].th[1].pc = "latch_child" => CoupledAtChild(seq[i])
  /\ ReturnsLeaf(seq[Len(seq)])

RECURSIVE CallStates(_, _)
CallStates(s, fuel) ==
  IF fuel = 0 \/ s.ub \/ s.th[1].pc \in {"idle", "ub", "oom"} \/ ~CanStep(s, 1)
    THEN <<s>>
    ELSE <<s>> \o CallStates(Step(s, 1), fuel - 1)

\* state c, in which CoalesceOrRedistribute is about to latch a sibling:
\* the node is not the root and is below min_size, and the sibling is its
\* left neighbour in the parent, or its right neighbour when it has none
SiblingChosen(c) ==
  LET n == c.th[1]
      node == Mem(c, n.node)
      parent == Mem(c, n.parent)
  IN /\ ~IsRootPage(node) /\ node.size < GetMinSize(node)
     /\ n.parent = node.par
     /\ n.index < parent.size /\ ValueAt(parent, n.index) = n.node
     /\ n.sibling = (IF n.index > 0 THEN ValueAt(parent, n.index - 1)
                                    ELSE ValueAt(parent, n.index + 1))

\* the step from state c redistributes when the two nodes hold more than
\* max_size entries, and the parent keeps its size; it coalesces
\* otherwise: the parent loses one entry and the left one of the two nodes
\* holds all entries
RebalancedFrom(c) ==
  LET n == c.th[1]
      node == Mem(c, n.node)
      sibling == Mem(c, n.sibling)
      parent == Mem(c, n.parent)
      sum == node.size + sibling.size
      merged == IF n.index = 0 THEN n.node ELSE n.sibling
  IN Bind(Step(c, 1), LAMBDA r :
       /\ ~r.ub
       /\ IF sum > node.maxs
            THEN /\ r.th[1].pc = "idle"
                 /\ NodeIn(r, n.parent).size = parent.size
                 /\ NodeIn(r, n.node).size = node.size + 1
                 /\ NodeIn(r, n.sibling).size = sibling.size - 1
            ELSE /\ NodeIn(r, merged).size = sum /\ sum <= node.maxs
                 /\ IF r.th[1].pc = "latch_sibling"
                      THEN /\ r.th[1].node = n.parent
                           /\ Mem(r, n.parent).size = parent.size - 1
                      ELSE /\ r.th[1].pc = "idle"
                           /\ \/ /\ IsRootPage(parent) /\ parent.size = 2
                                 /\ r.root = merged
                              \/ /\ NodeIn(r, n.parent).size = parent.size - 1
                                 /\ \/ IsRootPage(parent)
                                    \/ parent.size - 1 >= GetMinSize(parent))

\* remove(key) on a leaf that is not the root and keeps min_size entries
\* or more changes that leaf alone
OnlyLeafChanges(key) ==
  Bind(LeafFor(root_page_id_, key, MaxPageId), LAMBDA p :
    (/\ Node(p).typ = LEAF_PAGE /\ LeafHas(Node(p), key) /\ ~IsRootPage(Node(p))
     /\ Node(p).size - 1 >= GetMinSize(Node(p)))
      => Bind(After("remove", key, 0), LAMBDA r :
           /\ ReturnsFrom(r)
           /\ r.root = root_page_id_ /\ r.next = next_page_id
           /\ NodeIn(r, p) = LeafRemoveAndDeleteRecord(Node(p), key)
           /\ \A q \in Pids \ {p} : NodeIn(r, q) = Node(q)))

\* C38: after a key is removed from a node that is not the root: when the
\* node keeps min_size entries or more nothing else changes; otherwise the
\* sibling is the left neighbour when the node's index in its parent is
\* > 0 and the right neighbour when it is 0, the two nodes are
\* redistributed iff node.size + sibling.size > max_size (the parent keeps
\* its size), and are coalesced otherwise (the parent's size decreases by
\* exactly 1 and the merged node's size is <= max_size).
C38_CoalesceOrRedistribute ==
  Returned /\ NothingHeld /\ root_page_id_ # INVALID_PAGE_ID =>
    \A key \in Keys :
      /\ OnlyLeafChanges(key)
      /\ Bind(CallStates(StartOp(TS, 1, "remove", key, 0), RunFuel), LAMBDA seq :
           \A i \in 1 .. Len(seq) :
             seq[i].th[1].pc = "latch_sibling" => SiblingChosen(seq[i]) /\ RebalancedFrom(seq[i]))

\* a remove that coalesces two leaves and then redistributes their parent,
\* which the merge has left below min_size, with the parent's sibling
C38_CoalesceThenRedistribute ==
  /\ Returned /\ NothingHeld /\ root_page_id_ # INVALID_PAGE_ID
  /\ \E key \in Keys :
       Bind(CallStates(StartOp(TS, 1, "remove", key, 0), RunFuel), LAMBDA seq :
         \E i, j \in 1 .. Len(seq) :
           /\ i < j
           /\ seq[i].th[1].pc = "latch_sibling" /\ seq[j].th[1].pc = "latch_sibling"
           /\ IsLeafPage(Mem(seq[i], seq[i].th[1].node))
           /\ Mem(seq[i], seq[i].th[1].node).size + Mem(seq[i], seq[i].th[1].sibling).size
                <= Mem(seq[i], seq[i].th[1].node).maxs
           /\ seq[j].th[1].node = seq[i].th[1].parent
           /\ Mem(seq[j], seq[j].th[1].node).size + Mem(seq[j], seq[j].th[1].sibling).size
                > Mem(seq[j], seq[j].th[1].node).maxs
           /\ SiblingChosen(seq[j]) /\ RebalancedFrom(seq[j]))

----------------------------------------------------------------------------
(***************************************************************************)
(* Properties of the index iterator.                                       *)
(***************************************************************************)
\* the keys of the leaf chain that are >= key
KeysFrom(key) == SelectSeq(ChainKeys, LAMBDA x : x >= key)

\* C34: for every key k, present or absent, the iteration from Begin(k)
\* with ++ until IsEnd yields exactly the stored keys >= k in ascending
\* order (so the iterator never rests behind the last slot of a leaf that
\* has a next leaf), also for an absent k greater than every key of the
\* leaf the descent reaches and smaller than the first key of the next leaf.
C34_BeginKeyYieldsKeysFrom ==
  Returned /\ NothingHeld /\ LeafChainSorted /\ root_page_id_ # INVALID_PAGE_ID =>
    \A key \in Keys :
      Bind(After("begin", key, 0), LAMBDA it :
        ReturnsFrom(it) /\ it.th[1].ret = KeysFrom(key))

\* the state and the iterator that Begin() returns in the current state
BeginReturns ==
  Bind(DescentFrom(StartOp(TS, 1, "scan", 0, 0), MaxPageId), LAMBDA seq :
    Bind(UnlockRoot(seq[Len(seq)], 1), LAMBDA d :
      [s |-> d, it |-> [page |-> d.th[1].page, index |-> 0]]))

\* the iterator it of state s holds its leaf: one read latch and one pin
HoldsLeaf(s, it) ==
  /\ it.page \in Pids
  /\ s.lat[it.page].r = 1
  /\ s.pin[it.page] = BasePin(it.page) + 1

\* "it++" at every position from the one of it to the end: the destructor
\* of the copy releases a latch and a pin that are held, and the iterator
\* holds its leaf when the copy is gone
RECURSIVE PostfixKeepsLeaf(_, _, _)
PostfixKeepsLeaf(s, it, fuel) ==
  IF fuel = 0 \/ s.ub \/ IterIsEnd(s, it) THEN ~s.ub
  ELSE Bind(IterPostfix(s, it), LAMBDA r :
         /\ HoldsLeaf(r.s, r.it)
         /\ r.s.lat[r.clone.page].r > 0
         /\ r.s.pin[r.clone.page] > BasePin(r.clone.page)
         /\ HoldsLeaf(IterDestroy(r.s, r.clone), r.it)
         /\ PostfixKeepsLeaf(r.s, r.it, fuel - 1))

\* C35: over the lifetime of an iterator, also when it is advanced with
\* postfix ++, which copies the iterator and destroys the copy, the leaf the
\* iterator points to stays pinned and read-latched by it, and every pin and
\* read latch taken for the iterator is released exactly once.
C35_PostfixKeepsLeafHeld ==
  Returned /\ NothingHeld /\ LeafChainSorted /\ root_page_id_ # INVALID_PAGE_ID =>
    /\ HoldsLeaf(BeginReturns.s, BeginReturns.it)
    /\ PostfixKeepsLeaf(BeginReturns.s, BeginReturns.it, IterFuel)

\* state c, in which operator++ has fetched the next leaf and goes for its
\* read latch: the iterator still holds the latch and the pin of its leaf
\* and has the pin of the next leaf; when ++ is through it holds the next
\* leaf alone
NextLeafCoupled(c) ==
  LET p == c.th[1].page
      np == c.th[1].child
  IN /\ np = Mem(c, p).next
     /\ RLatched(c) = {p} /\ c.lat[p].r = 1
     /\ PinsOn(c, {p, np})
     /\ Bind(IterSwitch(c, p, np), LAMBDA r :
          /\ RLatched(r) = {np} /\ r.lat[np].r = 1
          /\ PinsOn(r, {np}))

\* ++ on the leaf p that has no next leaf changes the slot alone, and
\* IsEnd() holds once the slot is the size of the leaf
LastLeafAdvances(s, p) ==
  \A index \in 0 .. (Mem(s, p).size - 1) :
    Bind(IterPrefix(s, [page |-> p, index |-> index]), LAMBDA r :
      /\ r.s = s
      /\ r.it = [page |-> p, index |-> index + 1]
      /\ IterIsEnd(r.s, r.it) <=> (index + 1 = Mem(s, p).size))

\* C36: when prefix ++ steps past the last slot of a leaf that has a next
\* leaf, the iterator takes the pin and the read latch of the next leaf
\* before it releases those of its leaf, and then points to slot 0 of the
\* next leaf and holds exactly that leaf; on a leaf without a next leaf ++
\* changes only the slot, and IsEnd() holds once the slot is the size.
C36_NextLeafBeforeRelease ==
  Returned /\ NothingHeld /\ LeafChainSorted /\ root_page_id_ # INVALID_PAGE_ID =>
    /\ Bind(CallStates(StartOp(TS, 1, "scan", 0, 0), RunFuel), LAMBDA seq :
         /\ \A i \in 1 .. Len(seq) :
              seq[i].th[1].pc = "iter_next" => NextLeafCoupled(seq[i])
         /\ Cardinality({i \in 1 .. Len(seq) : seq[i].th[1].pc = "iter_next"})
              = Len(LeafChain) - 1
         /\ ReturnsFrom(seq[Len(seq)])
         /\ seq[Len(seq)].th[1].ret = ChainKeys
         /\ RLatched(seq[Len(seq)]) = {} /\ PinsOn(seq[Len(seq)], {}))
    /\ LastLeafAdvances(BeginReturns.s, LeafChain[Len(LeafChain)])

\* an iteration over three leaves or more: ++ has changed leaves twice
C36_IterationOverThreeLeaves ==
  /\ Returned /\ NothingHeld /\ LeafChainSorted /\ root_page_id_ # INVALID_PAGE_ID
  /\ Len(LeafChain) >= 3
  /\ Bind(CallStates(StartOp(TS, 1, "scan", 0, 0), RunFuel), LAMBDA seq :
       /\ Cardinality({i \in 1 .. Len(seq) : seq[i].th[1].pc = "iter_next"}) >= 2
       /\ ReturnsFrom(seq[Len(seq)])
       /\ seq[Len(seq)].th[1].ret = ChainKeys)

----------------------------------------------------------------------------
(***************************************************************************)
(* Further properties of the tree, concurrent threads.                     *)
(***************************************************************************)
\* the step of thread t starts a descent: root_latch_.lock() and
\* FetchPage(root_page_id_)
StartsDescent(t) == ConcStep(t) /\ th[t].pc = "find_lock"

\* C33: in every interleaving of inserting and removing threads, no descent
\* fetches the page INVALID_PAGE_ID: the tree that an insert or a remove
\* has seen non-empty is not empty when the operation fetches the root.
C33_NoDescentFromInvalidRoot ==
  [][\A t \in Threads :
       StartsDescent(t) /\ th[t].op \in {"insert", "remove"}
         => root_page_id_ # INVALID_PAGE_ID]_vars

====
